---- MODULE Spec2Model ----
(***************************************************************************)
(* A model of the document generator in src/app.py: the catalog of         *)
(* placeholders built at template ingestion, input validation, the         *)
(* rendering context, single-document generation and batch generation.     *)
(*                                                                         *)
(* Text is modelled as a sequence of one-character strings, so that the    *)
(* substring tests, splits and case conversions of the code are computed   *)
(* and not assumed.                                                        *)
(***************************************************************************)
EXTENDS Integers, Sequences, FiniteSets, TLC

(***************************************************************************)
(* Text primitives (Python str operations used by the code).               *)
(***************************************************************************)
Lowers == <<"a","b","c","d","e","f","g","h","i","j","k","l","m","n","o","p","q","r","s","t","u","v","w","x","y","z">>
Uppers == <<"A","B","C","D","E","F","G","H","I","J","K","L","M","N","O","P","Q","R","S","T","U","V","W","X","Y","Z">>
Digits == <<"0","1","2","3","4","5","6","7","8","9">>

\* Position of character c in seq, 0 when absent.
IndexIn(c, seq) ==
    IF \E i \in 1..Len(seq) : seq[i] = c
    THEN CHOOSE i \in 1..Len(seq) : seq[i] = c
    ELSE 0

\* One letter outside ASCII, whose lowercase form is two characters long:
\* U+0130 (capital I with dot above) lowers to "i" followed by U+0307
\* (combining dot above), which is no letter and has no case.
CapitalIWithDot == "U+0130"
CombiningDot == "U+0307"

IsUpperChar(c) == IndexIn(c, Uppers) > 0 \/ c = CapitalIWithDot
IsLowerChar(c) == IndexIn(c, Lowers) > 0
IsCased(c) == IsUpperChar(c) \/ IsLowerChar(c)
IsDigit(c) == IndexIn(c, Digits) > 0
IsSpace(c) == c \in {" ", "\t", "\n", "\r"}

LowerChar(c) == IF IndexIn(c, Uppers) > 0 THEN Lowers[IndexIn(c, Uppers)] ELSE c
UpperChar(c) == IF IsLowerChar(c) THEN Uppers[IndexIn(c, Lowers)] ELSE c

\* The full lowercase mapping of one character.
LowerFull(c) == IF c = CapitalIWithDot THEN <<"i", CombiningDot>> ELSE <<LowerChar(c)>>

\* "".join(parts)
RECURSIVE Concat(_)
Concat(parts) == IF parts = <<>> THEN <<>> ELSE Head(parts) \o Concat(Tail(parts))

\* str.lower(), str.upper()
Lower(s) == Concat([i \in 1..Len(s) |-> LowerFull(s[i])])
Upper(s) == [i \in 1..Len(s) |-> UpperChar(s[i])]

\* str.title(): a character that follows a cased character is lowered, any
\* other character is raised.
Title(s) ==
    Concat([i \in 1..Len(s) |->
                IF i > 1 /\ IsCased(s[i-1]) THEN LowerFull(s[i]) ELSE <<UpperChar(s[i])>>])

\* str.replace(a, b) for single characters a, b.
ReplaceChar(s, a, b) == [i \in 1..Len(s) |-> IF s[i] = a THEN b ELSE s[i]]

\* s[i:] starts with sub (1-based i).
StartsWithAt(s, sub, i) ==
    /\ i + Len(sub) - 1 <= Len(s)
    /\ \A j \in 1..Len(sub) : s[i + j - 1] = sub[j]

\* sub in s
Contains(s, sub) == \E i \in 1..(Len(s) + 1) : StartsWithAt(s, sub, i)

\* s.find(sub) + 1: the first position where sub occurs, 0 when it does not.
Find(s, sub) ==
    IF Contains(s, sub)
    THEN CHOOSE i \in 1..(Len(s) + 1) :
            /\ StartsWithAt(s, sub, i)
            /\ \A k \in 1..(i - 1) : ~StartsWithAt(s, sub, k)
    ELSE 0

\* any(x in s for x in words)
ContainsAny(s, words) == \E w \in words : Contains(s, w)

\* str.strip()
RECURSIVE LStrip(_)
LStrip(s) == IF s # <<>> /\ IsSpace(Head(s)) THEN LStrip(Tail(s)) ELSE s
RECURSIVE RStrip(_)
RStrip(s) ==
    IF s # <<>> /\ IsSpace(s[Len(s)]) THEN RStrip(SubSeq(s, 1, Len(s) - 1)) ELSE s
Strip(s) == RStrip(LStrip(s))

\* str(n) for n >= 0
RECURSIVE IntToStr(_)
IntToStr(n) ==
    IF n < 10 THEN <<Digits[n + 1]>>
    ELSE IntToStr(n \div 10) \o <<Digits[(n % 10) + 1]>>

(***************************************************************************)
(* Instance identifiers.                                                   *)
(***************************************************************************)
\* The literal '_instance_'.
InstanceMark == <<"_","i","n","s","t","a","n","c","e","_">>

\* ph.name.split('_instance_')[0] if '_instance_' in ph.name else ph.name
BaseNameOf(name) ==
    IF Contains(name, InstanceMark)
    THEN SubSeq(name, 1, Find(name, InstanceMark) - 1)
    ELSE name

\* f"{var_name}_instance_{count}" for count > 1, var_name itself for count = 1
InstanceName(var_name, count) ==
    IF count = 1 THEN var_name ELSE var_name \o InstanceMark \o IntToStr(count)

(***************************************************************************)
(* Inference of a field's type and default from its name.                  *)
(***************************************************************************)
\* A detection that tried the email rule before the date rule.
detect_variable_type_email_first(var_name) ==
    LET name_lower == Lower(var_name) IN
    IF Contains(name_lower, <<"e","m","a","i","l">>) THEN "email"
    ELSE IF Contains(name_lower, <<"d","a","t","e">>) THEN "date"
    ELSE IF ContainsAny(name_lower,
                {<<"n","u","m","b","e","r">>, <<"a","m","o","u","n","t">>,
                 <<"r","e","g","_","n","o">>}) THEN "number"
    ELSE IF Contains(name_lower, <<"u","r","l">>) THEN "url"
    ELSE IF ContainsAny(name_lower,
                {<<"g","e","n","d","e","r">>, <<"r","e","l","a","t","i","o","n">>,
                 <<"h","e","_","s","h","e">>, <<"h","i","s","_","h","e","r">>,
                 <<"r","e","l","a","t","i","o","n","s","h","i","p">>,
                 <<"r","e","l","i","g","i","o","n">>, <<"l","e","v","e","l">>}) THEN "option"
    ELSE "text"

\* DocumentProcessor.detect_variable_type: ordered substring rules on the
\* lowercased name, first match wins, default text.
detect_variable_type(var_name) ==
    LET name_lower == Lower(var_name) IN
    IF Contains(name_lower, <<"d","a","t","e">>) THEN "date"
    ELSE IF Contains(name_lower, <<"e","m","a","i","l">>) THEN "email"
    ELSE IF ContainsAny(name_lower,
                {<<"n","u","m","b","e","r">>, <<"a","m","o","u","n","t">>,
                 <<"r","e","g","_","n","o">>}) THEN "number"
    ELSE IF Contains(name_lower, <<"u","r","l">>) THEN "url"
    ELSE IF ContainsAny(name_lower,
                {<<"g","e","n","d","e","r">>, <<"r","e","l","a","t","i","o","n">>,
                 <<"h","e","_","s","h","e">>, <<"h","i","s","_","h","e","r">>,
                 <<"r","e","l","a","t","i","o","n","s","h","i","p">>,
                 <<"r","e","l","i","g","i","o","n">>, <<"l","e","v","e","l">>}) THEN "option"
    ELSE "text"

\* DocumentProcessor.get_smart_placeholder_default: ordered substring rules
\* on the lowercased name; "Enter <Title Cased Name>" when none matches.
get_smart_placeholder_default(var_name) ==
    LET name_lower == Lower(var_name) IN
    IF ContainsAny(name_lower,
          {<<"n","a","m","e">>, <<"f","u","l","l","_","n","a","m","e">>,
           <<"s","t","u","d","e","n","t","_","n","a","m","e">>,
           <<"a","p","p","l","i","c","a","n","t","_","n","a","m","e">>,
           <<"n","a","m","e","_","1">>})
    THEN <<"J","o","e"," ","D","o","e">>
    ELSE IF ContainsAny(name_lower,
          {<<"a","d","d","r","e","s","s">>,
           <<"s","e","n","d","e","r","_","a","d","d","r","e","s","s">>,
           <<"m","y","_","a","d","d","r","e","s","s">>,
           <<"l","o","c","a","t","i","o","n">>, <<"r","e","s","i","d","e","n","c","e">>})
    THEN <<"2","4"," ","A","v","e","n","u","e"," ","A","v","e","n","u","e",","," ","O","s","a","t","o"," ","J","u","n","c","t","i","o","n",","," ","B","e","n","i","n"," ","C","i","t","y",","," ","E","d","o"," ","S","t","a","t","e">>
    ELSE IF Contains(name_lower, <<"s","t","r","e","e","t">>)
    THEN <<"2","4"," ","A","v","e","n","u","e"," ","A","v","e","n","u","e">>
    ELSE IF ContainsAny(name_lower, {<<"c","i","t","y">>, <<"t","o","w","n">>})
    THEN <<"B","e","n","i","n"," ","C","i","t","y">>
    ELSE IF Contains(name_lower, <<"s","t","a","t","e">>)
    THEN <<"E","d","o"," ","S","t","a","t","e">>
    ELSE IF ContainsAny(name_lower,
          {<<"d","e","p","a","r","t","m","e","n","t">>, <<"d","e","p","t">>})
    THEN <<"P","r","o","d","u","c","t","i","o","n"," ","E","n","g","i","n","e","e","r","i","n","g">>
    ELSE IF Contains(name_lower, <<"f","a","c","u","l","t","y">>)
    THEN <<"E","n","g","i","n","e","e","r","i","n","g">>
    ELSE IF ContainsAny(name_lower,
          {<<"c","o","l","l","e","g","e">>, <<"i","n","s","t","i","t","u","t","i","o","n">>,
           <<"u","n","i","v","e","r","s","i","t","y">>, <<"s","c","h","o","o","l">>})
    THEN <<"U","n","i","v","e","r","s","i","t","y"," ","o","f"," ","B","e","n","i","n">>
    ELSE IF ContainsAny(name_lower,
          {<<"m","a","t","_","n","o">>, <<"m","a","t","r","i","c","_","n","o">>,
           <<"r","e","g","_","n","o">>, <<"i","d">>,
           <<"s","t","u","d","e","n","t","_","i","d">>,
           <<"r","e","g","i","s","t","r","a","t","i","o","n","_","n","u","m","b","e","r">>})
    THEN <<"E","N","G","2","2","0","4","2","2","3">>
    ELSE IF Contains(name_lower, <<"g","e","n","d","e","r">>)
    THEN <<"M","a","l","e">>
    ELSE IF ContainsAny(name_lower,
          {<<"h","i","s","_","h","e","r">>, <<"h","i","s","_","s","h","e">>})
    THEN <<"h","i","s">>
    ELSE IF ContainsAny(name_lower,
          {<<"h","i","m","_","h","e","r">>, <<"h","i","m","_","s","h","e">>})
    THEN <<"h","i","m">>
    ELSE IF ContainsAny(name_lower,
          {<<"h","e","_","s","h","e">>, <<"h","e","s","h","e">>})
    THEN <<"h","e">>
    ELSE IF ContainsAny(name_lower, {<<"d","a","t","e">>, <<"t","i","m","e">>})
    THEN <<>>
    ELSE <<"E","n","t","e","r"," ">> \o Title(ReplaceChar(var_name, "_", " "))

(***************************************************************************)
(* Template ingestion: one Placeholder row per extracted occurrence.       *)
(***************************************************************************)
\* instance_counters[var_name] after the i-th occurrence has been counted.
InstanceCount(placeholder_instances, i) ==
    Cardinality({j \in 1..i : placeholder_instances[j].name = placeholder_instances[i].name})

\* An ingestion that numbered the rows per token name instead of per
\* occurrence: sort_order would restart at 0 for every new name.
NewPlaceholderNumberedPerName(placeholder_instances, pos) ==
    LET inst     == placeholder_instances[pos]
        var_name == inst.name
        count    == InstanceCount(placeholder_instances, pos)
        base     == Title(ReplaceChar(var_name, "_", " "))
    IN  [ name             |-> InstanceName(var_name, count),
          display_name     |-> IF count > 1
                               THEN base \o <<" ","(","I","n","s","t","a","n","c","e"," ">>
                                         \o IntToStr(count) \o <<")">>
                               ELSE base,
          placeholder_type |-> detect_variable_type(var_name),
          sort_order       |-> count - 1,
          formatting       |-> inst.formatting,
          casing           |-> "none",
          default_value    |-> get_smart_placeholder_default(var_name),
          is_required      |-> TRUE ]

\* The Placeholder row built for the occurrence at (1-based) position pos of
\* placeholder_instances; the code's counter i is pos - 1.
NewPlaceholder(placeholder_instances, pos) ==
    LET inst     == placeholder_instances[pos]
        var_name == inst.name
        count    == InstanceCount(placeholder_instances, pos)
        base     == Title(ReplaceChar(var_name, "_", " "))
    IN  [ name             |-> InstanceName(var_name, count),
          display_name     |-> IF count > 1
                               THEN base \o <<" ","(","I","n","s","t","a","n","c","e"," ">>
                                         \o IntToStr(count) \o <<")">>
                               ELSE base,
          placeholder_type |-> detect_variable_type(var_name),
          sort_order       |-> pos - 1,
          formatting       |-> inst.formatting,
          casing           |-> "none",
          default_value    |-> get_smart_placeholder_default(var_name),
          is_required      |-> TRUE ]

\* The loop of admin_upload_template over placeholder_instances.
CreatePlaceholders(placeholder_instances) ==
    [pos \in 1..Len(placeholder_instances) |->
        NewPlaceholder(placeholder_instances, pos)]

(***************************************************************************)
(* Grouping of Placeholder rows by base name (validate_inputs, create).    *)
(***************************************************************************)
\* user_inputs.get(key, default)
DictGet(user_inputs, key, default) ==
    IF key \in DOMAIN user_inputs THEN user_inputs[key] ELSE default

\* The keys of the defaultdict `grouped`, in insertion order: the base names
\* of the rows in order of first appearance.
RECURSIVE GroupKeys(_)
GroupKeys(phs) ==
    IF phs = <<>> THEN <<>>
    ELSE LET rest == GroupKeys(SubSeq(phs, 1, Len(phs) - 1))
             base == BaseNameOf(phs[Len(phs)].name)
         IN  IF \E k \in 1..Len(rest) : rest[k] = base THEN rest
             ELSE Append(rest, base)

\* grouped[base_name]: the rows of that base name, in list order.
GroupOf(phs, base_name) ==
    SelectSeq(phs, LAMBDA ph : BaseNameOf(ph.name) = base_name)

\* min(phs, key=lambda p: p.sort_order): the first row of least sort_order.
MinBySortOrder(phs) ==
    phs[CHOOSE i \in 1..Len(phs) :
            /\ \A j \in 1..Len(phs) : phs[i].sort_order <= phs[j].sort_order
            /\ \A j \in 1..(i - 1) : phs[j].sort_order > phs[i].sort_order]

\* x or y, for strings
OrElse(x, y) == IF x # <<>> THEN x ELSE y

\* A validation that reported every required member of a group instead of
\* the group once.
GroupErrorsPerMember(phs, base_name, user_inputs) ==
    LET value == DictGet(user_inputs, base_name, <<>>)
    IN  IF Strip(value) = <<>>
        THEN LET required == SelectSeq(phs, LAMBDA ph : ph.is_required)
             IN  [k \in 1..Len(required) |->
                    OrElse(required[k].display_name, base_name)
                        \o <<" ","i","s"," ","r","e","q","u","i","r","e","d">>]
        ELSE <<>>

(***************************************************************************)
(* DocumentProcessor.validate_inputs                                       *)
(***************************************************************************)
\* The messages one group adds to `errors`.  No code path assigns
\* Placeholder.validation_pattern, so the column is NULL in every row and
\* the pattern loop adds nothing.
GroupErrors(phs, base_name, user_inputs) ==
    LET value == DictGet(user_inputs, base_name, <<>>)
        first_ph == MinBySortOrder(phs)
    IN  IF (\E i \in 1..Len(phs) : phs[i].is_required) /\ Strip(value) = <<>>
        THEN << OrElse(first_ph.display_name, base_name)
                    \o <<" ","i","s"," ","r","e","q","u","i","r","e","d">> >>
        ELSE <<>>

RECURSIVE ErrorsOfGroups(_, _, _)
ErrorsOfGroups(keys, placeholders, user_inputs) ==
    IF keys = <<>> THEN <<>>
    ELSE GroupErrors(GroupOf(placeholders, Head(keys)), Head(keys), user_inputs)
            \o ErrorsOfGroups(Tail(keys), placeholders, user_inputs)

validate_inputs(placeholders, user_inputs) ==
    ErrorsOfGroups(GroupKeys(placeholders), placeholders, user_inputs)

(***************************************************************************)
(* The form catalog of the create view.                                    *)
(***************************************************************************)
\* order_by(Placeholder.sort_order): a stable sort of the rows.
RECURSIVE SortBySortOrder(_)
SortBySortOrder(phs) ==
    IF phs = <<>> THEN <<>>
    ELSE LET m == CHOOSE i \in 1..Len(phs) :
                    /\ \A j \in 1..Len(phs) : phs[i].sort_order <= phs[j].sort_order
                    /\ \A j \in 1..(i - 1) : phs[j].sort_order > phs[i].sort_order
         IN  <<phs[m]>> \o SortBySortOrder(SubSeq(phs, 1, m - 1) \o SubSeq(phs, m + 1, Len(phs)))

\* sorted(merged_placeholders, key=min sort_order of the group): insertion
\* sort of the keys, stable as Python's sorted is.
RECURSIVE SortKeysByMin(_, _)
SortKeysByMin(keys, phs) ==
    IF keys = <<>> THEN <<>>
    ELSE LET MinOf(k) == MinBySortOrder(GroupOf(phs, k)).sort_order
             m == CHOOSE i \in 1..Len(keys) :
                    /\ \A j \in 1..Len(keys) : MinOf(keys[i]) <= MinOf(keys[j])
                    /\ \A j \in 1..(i - 1) : MinOf(keys[j]) > MinOf(keys[i])
         IN  <<keys[m]>> \o SortKeysByMin(SubSeq(keys, 1, m - 1) \o SubSeq(keys, m + 1, Len(keys)), phs)

\* unique_placeholders of create(): for each base name, by least sort_order,
\* the row of least sort_order, renamed to the base name.
UniquePlaceholders(rows) ==
    LET placeholders == SortBySortOrder(rows)
        keys == SortKeysByMin(GroupKeys(placeholders), placeholders)
    IN  [k \in 1..Len(keys) |->
            [MinBySortOrder(GroupOf(placeholders, keys[k])) EXCEPT !.name = keys[k]]]

(***************************************************************************)
(* Value transformations.                                                  *)
(***************************************************************************)
\* DocumentProcessor.ordinal
\* An ordinal without the rule for 11, 12 and 13.
ordinal_by_last_digit(n) ==
    IntToStr(n) \o
        << <<"t","h">>, <<"s","t">>, <<"n","d">>, <<"r","d">>, <<"t","h">> >>
            [(IF n % 10 < 4 THEN n % 10 ELSE 4) + 1]

ordinal(n) ==
    IntToStr(n) \o
        (IF 11 <= (n % 100) /\ (n % 100) <= 13 THEN <<"t","h">>
         ELSE << <<"t","h">>, <<"s","t">>, <<"n","d">>, <<"r","d">>, <<"t","h">> >>
                    [(IF n % 10 < 4 THEN n % 10 ELSE 4) + 1])

\* strftime("%B")
MonthName(m) ==
    << <<"J","a","n","u","a","r","y">>,
       <<"F","e","b","r","u","a","r","y">>,
       <<"M","a","r","c","h">>,
       <<"A","p","r","i","l">>,
       <<"M","a","y">>,
       <<"J","u","n","e">>,
       <<"J","u","l","y">>,
       <<"A","u","g","u","s","t">>,
       <<"S","e","p","t","e","m","b","e","r">>,
       <<"O","c","t","o","b","e","r">>,
       <<"N","o","v","e","m","b","e","r">>,
       <<"D","e","c","e","m","b","e","r">> >>[m]

DaysInMonth(y, m) ==
    IF m = 2
    THEN (IF (y % 4 = 0 /\ y % 100 # 0) \/ y % 400 = 0 THEN 29 ELSE 28)
    ELSE IF m \in {4, 6, 9, 11} THEN 30 ELSE 31

\* The value of a string of decimal digits.
RECURSIVE DigitsValue(_)
DigitsValue(s) ==
    IF s = <<>> THEN 0
    ELSE 10 * DigitsValue(SubSeq(s, 1, Len(s) - 1)) + (IndexIn(s[Len(s)], Digits) - 1)

\* dateutil's parse(date_string), for the inputs of this model: a calendar
\* date written YYYY-MM-DD is parsed, and any other modelled input is one
\* the parser rejects with a ValueError.  ok tells which.
ParseDate(date_string) ==
    LET s == Strip(date_string)
        shaped == /\ Len(s) = 10
                  /\ s[5] = "-" /\ s[8] = "-"
                  /\ \A i \in {1, 2, 3, 4, 6, 7, 9, 10} : IsDigit(s[i])
        y == DigitsValue(SubSeq(s, 1, 4))
        m == DigitsValue(SubSeq(s, 6, 7))
        d == DigitsValue(SubSeq(s, 9, 10))
    IN  IF shaped /\ y >= 1 /\ m \in 1..12 /\ d >= 1 /\ d <= DaysInMonth(y, m)
        THEN [ok |-> TRUE, year |-> y, month |-> m, day |-> d]
        ELSE [ok |-> FALSE, year |-> 0, month |-> 0, day |-> 0]

\* DocumentProcessor.format_date; now is datetime.now(Africa/Lagos), the
\* current calendar date in West Africa Time.
format_date(date_string, template_type, now) ==
    LET parsed   == ParseDate(date_string)
        blank    == date_string = <<>> \/ Strip(date_string) = <<>>
        date_obj == IF blank THEN now ELSE parsed
        day      == ordinal(date_obj.day)
        month    == MonthName(date_obj.month)
        year     == IntToStr(date_obj.year)
    IN  IF ~blank /\ ~parsed.ok THEN date_string
        ELSE IF Lower(template_type) = <<"a","f","f","i","d","a","v","i","t">>
        THEN day \o <<" ","o","f"," ">> \o month \o <<","," ">> \o year
        ELSE day \o <<" ">> \o month \o <<","," ">> \o year

\* str.split(sep) for a one-character separator
RECURSIVE Split(_, _)
Split(s, sep) ==
    IF \E i \in 1..Len(s) : s[i] = sep
    THEN LET i == CHOOSE k \in 1..Len(s) :
                    s[k] = sep /\ \A j \in 1..(k - 1) : s[j] # sep
         IN  <<SubSeq(s, 1, i - 1)>> \o Split(SubSeq(s, i + 1, Len(s)), sep)
    ELSE <<s>>

\* sep.join(lines)
RECURSIVE Join(_, _)
Join(lines, sep) ==
    IF lines = <<>> THEN <<>>
    ELSE IF Len(lines) = 1 THEN lines[1]
    ELSE lines[1] \o sep \o Join(Tail(lines), sep)

\* while address.endswith('.'): address = address[:-1].strip()
RECURSIVE StripTrailingPeriods(_)
StripTrailingPeriods(address) ==
    IF address # <<>> /\ address[Len(address)] = "."
    THEN StripTrailingPeriods(Strip(SubSeq(address, 1, Len(address) - 1)))
    ELSE address

\* A format_address that kept the empty segments.
format_address_keeping_empty(address_string, template_type) ==
    LET address  == Strip(address_string)
        lines    == [i \in 1..Len(Split(address, ",")) |-> Strip(Split(address, ",")[i])]
        n        == Len(lines)
        commas   == [i \in 1..n |->
                        IF i < n THEN lines[i] \o <<",">>
                        ELSE IF lines[i] # <<>> /\ lines[i][Len(lines[i])] = "." THEN lines[i]
                        ELSE lines[i] \o <<".">>]
    IN  IF address_string = <<>> \/ address = <<>> THEN address_string
        ELSE IF Lower(template_type) = <<"l","e","t","t","e","r">>
        THEN Join(commas, <<"\n">>)
        ELSE IF Lower(template_type) = <<"a","f","f","i","d","a","v","i","t">>
        THEN StripTrailingPeriods(address)
        ELSE address

\* DocumentProcessor.format_address
format_address(address_string, template_type) ==
    LET address  == Strip(address_string)
        stripped == [i \in 1..Len(Split(address, ",")) |-> Strip(Split(address, ",")[i])]
        lines    == SelectSeq(stripped, LAMBDA l : l # <<>>)
        n        == Len(lines)
        commas   == [i \in 1..n |->
                        IF i < n THEN lines[i] \o <<",">>
                        ELSE IF lines[i][Len(lines[i])] = "." THEN lines[i]
                        ELSE lines[i] \o <<".">>]
    IN  IF address_string = <<>> \/ address = <<>> THEN address_string
        ELSE IF Lower(template_type) = <<"l","e","t","t","e","r">>
        THEN (IF n > 0 THEN Join(commas, <<"\n">>) ELSE address)
        ELSE IF Lower(template_type) = <<"a","f","f","i","d","a","v","i","t">>
        THEN StripTrailingPeriods(address)
        ELSE address

\* DocumentProcessor.apply_casing
apply_casing(value, casing) ==
    IF casing = "upper" THEN Upper(value)
    ELSE IF casing = "lower" THEN Lower(value)
    ELSE IF casing = "title" THEN Title(value)
    ELSE value

(***************************************************************************)
(* DocumentProcessor.prepare_context                                       *)
(***************************************************************************)
\* The raw value looked up for one row: under the row's own name, then,
\* when that is empty and the name is an instance identifier, under its
\* base name.
LookupValue(ph, user_inputs) ==
    LET default == OrElse(ph.default_value, <<>>)
        value   == DictGet(user_inputs, ph.name, default)
    IN  IF value = <<>> /\ Contains(ph.name, InstanceMark)
        THEN DictGet(user_inputs, BaseNameOf(ph.name), default)
        ELSE value

\* The value stored in the context for one row.
ContextValue(ph, template_type, user_inputs, now) ==
    LET value == LookupValue(ph, user_inputs)
        transformed ==
            IF ph.placeholder_type = "date"
            THEN format_date(value, template_type, now)
            ELSE IF Contains(Lower(ph.name), <<"a","d","d","r","e","s","s">>)
            THEN format_address(value, template_type)
            ELSE value
    IN  apply_casing(transformed, ph.casing)

\* context: a dict keyed by row name; a later row of the same name
\* overwrites an earlier one.
prepare_context(template, user_inputs, now) ==
    LET phs == template.placeholders
        Last(n) == CHOOSE i \in 1..Len(phs) :
                        phs[i].name = n /\ \A j \in (i + 1)..Len(phs) : phs[j].name # n
    IN  [n \in {phs[i].name : i \in 1..Len(phs)} |->
            ContextValue(phs[Last(n)], template.type, user_inputs, now)]

(***************************************************************************)
(* admin_edit_template: what a submitted form does to the rows.            *)
(***************************************************************************)
\* form.display_name and form.default_value are "resubmit" (the field comes
\* back as it was shown), "cleared" (the field comes back empty) or, for
\* display_name, "absent" (no such key: the row's name is used).
EditRow(ph, form) ==
    [ph EXCEPT
        !.display_name  = IF form.display_name = "cleared" THEN <<>>
                          ELSE IF form.display_name = "absent" THEN ph.name
                          ELSE @,
        !.is_required   = TRUE,
        !.casing        = form.casing,
        !.default_value = IF form.default_value = "cleared" THEN <<>> ELSE @]

EditRows(phs, form) == [i \in 1..Len(phs) |-> EditRow(phs[i], form)]

(***************************************************************************)
(* The catalog specification: one document is ingested, its rows may be    *)
(* edited, and the form catalog, the validation and the context are        *)
(* computed from the rows for inputs drawn from bounded sets.  Each run    *)
(* ends with one computation, kept in view with its arguments.             *)
(***************************************************************************)
VARIABLES
    placeholder_instances,  \* what extract_template_variables returned
    template_type,          \* Template.type of the ingested template
    stage,                  \* "extracted" | "stored" | "edited"
    rows,                   \* the template's Placeholder rows
    view                    \* the last computation and its arguments

catVars == <<placeholder_instances, template_type, stage, rows, view>>

\* The generation system's state, untouched by the catalog actions.
VARIABLES
    templates,  \* Template rows by id, each with its Placeholder rows
    documents,  \* CreatedDocument rows; a row's id is its position
    files,      \* GENERATED_FOLDER: the .docx files by name
    pdfs,       \* GENERATED_FOLDER: the .pdf files by name
    uuids,      \* how many output file names uuid4 has handed out
    batches,    \* BatchGeneration rows; a row's batch_id is its position
    proc,       \* the process_batch call of the latest batch request
    calls,      \* how many times generate_document has been called
    last,       \* the response of the latest request
    uploads,    \* UPLOAD_FOLDER: the template files saved by uploads
    cache       \* the SimpleCache: values by key, until they time out

sysVars ==
    <<templates, documents, files, pdfs, uuids, batches, proc, calls, last, uploads, cache>>

vars == <<catVars, sysVars>>

MaxOccurrences == 3

T_name == <<"n","a","m","e">>
T_date == <<"d","a","t","e">>

\* Token names a document may hold (anything matching \w+): two ordinary
\* names and one that itself contains the instance mark.
TokenNames == {T_name, T_date, T_name \o InstanceMark \o <<"2">>}

TemplateTypes == {<<"l","e","t","t","e","r">>, <<"a","f","f","i","d","a","v","i","t">>}

\* Raw form values: missing key, empty, blank, a word, a date.
InputValues ==
    {<<>>, <<" ">>, <<"A","d","a">>, <<"2","0","2","5","-","0","9","-","2","2">>}

InputKeys == {T_name, T_date}

\* user_inputs: each key missing or bound to one of its values (a name is
\* missing, empty, blank or a word; a date is missing, empty or a date).
InputMaps ==
    UNION {{m \in [K -> InputValues] :
                \A k \in K :
                    /\ (k = T_date) => m[k] # <<" ">> /\ m[k] # <<"A","d","a">>
                    /\ (k = T_name) => Len(m[k]) <= 3}
            : K \in SUBSET InputKeys}

Today == [ok |-> TRUE, year |-> 2026, month |-> 11, day |-> 1]

\* Submitted forms: every field resubmitted as shown, or one field changed.
EditForms ==
    LET same == [display_name |-> "resubmit", casing |-> "none",
                 default_value |-> "resubmit"]
    IN  {same,
         [same EXCEPT !.display_name = "cleared"],
         [same EXCEPT !.display_name = "absent"],
         [same EXCEPT !.default_value = "cleared"],
         [same EXCEPT !.casing = "upper"]}

\* Values of the is_required column for the rows handed to validate_inputs:
\* as stored, all unset (the column default), or set on every other row.
RequiredPatterns == {"stored", "none", "alternate"}

WithRequired(phs, pattern) ==
    [i \in 1..Len(phs) |->
        [phs[i] EXCEPT !.is_required =
            IF pattern = "none" THEN FALSE
            ELSE IF pattern = "alternate" THEN i % 2 = 0
            ELSE @]]

NoView == [op |-> "none"]

CatStart ==
    /\ \E n \in 1..MaxOccurrences, names \in [1..MaxOccurrences -> TokenNames] :
         placeholder_instances =
            [i \in 1..n |-> [name |-> names[i],
                             formatting |-> [bold |-> i % 2 = 1]]]
    /\ template_type \in TemplateTypes
    /\ stage = "extracted"
    /\ rows = <<>>
    /\ view = NoView

\* admin_upload_template, from the extracted occurrences to the commit.
CatUpload ==
    /\ stage = "extracted"
    /\ rows' = CreatePlaceholders(placeholder_instances)
    /\ stage' = "stored"
    /\ UNCHANGED <<placeholder_instances, template_type, view, sysVars>>

\* admin_edit_template (POST)
CatEdit ==
    /\ stage = "stored"
    /\ view = NoView
    /\ \E form \in EditForms : rows' = EditRows(rows, form)
    /\ stage' = "edited"
    /\ view' = NoView
    /\ UNCHANGED <<placeholder_instances, template_type, sysVars>>

\* create(): the form catalog
CatCreate ==
    /\ stage \in {"stored", "edited"}
    /\ view = NoView
    /\ view' = [op |-> "create", form |-> UniquePlaceholders(rows)]
    /\ UNCHANGED <<placeholder_instances, template_type, stage, rows, sysVars>>

\* validate_inputs(placeholders, user_inputs)
CatValidate ==
    /\ stage \in {"stored", "edited"}
    /\ view = NoView
    /\ \E user_inputs \in InputMaps, pattern \in RequiredPatterns :
         LET placeholders == WithRequired(rows, pattern) IN
         view' = [op |-> "validate", placeholders |-> placeholders,
                  user_inputs |-> user_inputs,
                  errors |-> validate_inputs(placeholders, user_inputs)]
    /\ UNCHANGED <<placeholder_instances, template_type, stage, rows, sysVars>>

\* prepare_context(template, user_inputs), reached in generate_document
\* only when validate_inputs returned no error.
CatPrepare ==
    /\ stage \in {"stored", "edited"}
    /\ view = NoView
    /\ \E user_inputs \in InputMaps :
         /\ validate_inputs(rows, user_inputs) = <<>>
         /\ view' = [op |-> "context", user_inputs |-> user_inputs,
                     context |-> prepare_context(
                        [type |-> template_type, placeholders |-> rows],
                        user_inputs, Today)]
    /\ UNCHANGED <<placeholder_instances, template_type, stage, rows, sysVars>>

CatNext == CatUpload \/ CatEdit \/ CatCreate \/ CatValidate \/ CatPrepare

(***************************************************************************)
(* The generation system: templates, generated files, CreatedDocument and  *)
(* BatchGeneration rows, and the requests that change them.                *)
(***************************************************************************)
MaxCalls == 3

\* Template ids a request may name: the two uploaded templates and one id
\* that no template has.
RequestTemplateIds == {1, 2, 3}

\* Raw form inputs of a request: the name filled in, with an ordinal typed in
\* title case, and nothing else; enough for the letter, not for the affidavit.
RequestInputs ==
    { (T_name :> <<"A","d","a"," ","1","9","T","h">>) }

\* Where a generate_document call may fail once validation has passed:
\* nowhere; in the substitution (before any file is written); on re-opening
\* the saved file; in the margin adjustment; in the final commit.
Faults == {"none", "render", "reopen", "adjust", "commit"}

\* The outcomes of the external converter.
Conversions == {"ok", "empty_file", "no_file", "unavailable"}

\* Template(...) + the Placeholder rows of admin_upload_template, for an
\* upload whose extraction succeeded.
NewTemplate(type, instances) ==
    [type |-> type, is_active |-> TRUE, placeholders |-> CreatePlaceholders(instances)]

(***************************************************************************)
(* fix_date_ordinal_casing                                                 *)
(***************************************************************************)
\* str.isupper(): some cased character and no lowercase one.
IsUpperText(text) ==
    /\ \E i \in 1..Len(text) : IsUpperChar(text[i])
    /\ \A i \in 1..Len(text) : ~IsLowerChar(text[i])

\* \w
IsWordChar(c) == IsCased(c) \/ IsDigit(c) \/ c = "_"

\* Position i starts the suffix of a match of (\d+)(Th|St|Nd|Rd)\b.
OrdinalSuffixAt(text, i) ==
    /\ i >= 2 /\ i + 1 <= Len(text)
    /\ IsDigit(text[i - 1])
    /\ <<text[i], text[i + 1]>> \in {<<"T","h">>, <<"S","t">>, <<"N","d">>, <<"R","d">>}
    /\ (i + 2 > Len(text) \/ ~IsWordChar(text[i + 2]))

fix_date_ordinal_casing(text) ==
    IF IsUpperText(text) THEN text
    ELSE [i \in 1..Len(text) |->
            IF OrdinalSuffixAt(text, i) THEN LowerChar(text[i]) ELSE text[i]]

\* {k: fix_date_ordinal_casing(v) for k, v in user_inputs.items()}
FixInputs(user_inputs) ==
    [k \in DOMAIN user_inputs |-> fix_date_ordinal_casing(user_inputs[k])]

(***************************************************************************)
(* DocumentProcessor.generate_document                                     *)
(***************************************************************************)
\* The call raised: nothing is returned, and db, disk are as given.
Raised(kind, message, fs, n) ==
    [raised |-> TRUE, kind |-> kind, message |-> message,
     documents |-> documents, files |-> fs, uuids |-> n, doc |-> 0]

\* A generate_document that rendered and saved the file before it looked
\* at the validation errors.
generate_document_validating_late(template_id, user_inputs, fault) ==
    IF template_id \notin DOMAIN templates
    THEN Raised("NotFound", <<"4","0","4"," ","N","o","t"," ","F","o","u","n","d">>,
                files, uuids)
    ELSE
    LET template == templates[template_id]
        errors   == validate_inputs(template.placeholders, user_inputs)
        context  == prepare_context(template, user_inputs, Today)
        output_filename == uuids + 1
        rendered == files @@ (output_filename :> [context |-> context, adjusted |-> FALSE])
    IN  IF errors # <<>>
        THEN Raised("ValueError", Join(errors, <<"\n">>), rendered, output_filename)
        ELSE [raised |-> FALSE, kind |-> "", message |-> <<>>,
              documents |-> Append(documents,
                    [template_id |-> template_id, file_path |-> output_filename,
                     batch_id |-> 0]),
              files |-> rendered, uuids |-> output_filename,
              doc |-> Len(documents) + 1]

\* The outcome of generate_document(template_id, user_inputs, ...) in the
\* current state when the environment fails it at `fault`.
generate_document(template_id, user_inputs, fault) ==
    IF template_id \notin DOMAIN templates
    THEN Raised("NotFound", <<"4","0","4"," ","N","o","t"," ","F","o","u","n","d">>,
                files, uuids)
    ELSE
    LET template == templates[template_id]
        errors   == validate_inputs(template.placeholders, user_inputs)
        context  == prepare_context(template, user_inputs, Today)
        output_filename == uuids + 1
        rendered == files @@ (output_filename :> [context |-> context, adjusted |-> FALSE])
        adjusted == files @@ (output_filename :> [context |-> context, adjusted |-> TRUE])
        final    == IF fault = "adjust" THEN rendered ELSE adjusted
    IN  IF errors # <<>> THEN Raised("ValueError", Join(errors, <<"\n">>), files, uuids)
        ELSE IF fault = "render"
        THEN Raised("Exception", <<"r","e","n","d","e","r"," ","f","a","i","l","e","d">>,
                    files, uuids)
        ELSE IF fault = "reopen"
        THEN Raised("Exception",
                    <<"c","a","n","n","o","t"," ","o","p","e","n"," ","d","o","c","u","m","e","n","t">>,
                    rendered, output_filename)
        ELSE IF fault = "commit"
        THEN Raised("Exception", <<"c","o","m","m","i","t"," ","f","a","i","l","e","d">>,
                    final, output_filename)
        ELSE [raised |-> FALSE, kind |-> "", message |-> <<>>,
              documents |-> Append(documents,
                    [template_id |-> template_id, file_path |-> output_filename,
                     batch_id |-> 0]),
              files |-> final, uuids |-> output_filename,
              doc |-> Len(documents) + 1]

\* No process_batch call has been made by the latest request.
NoProc ==
    [pc |-> "idle", batch |-> 0, template_ids |-> <<>>, user_inputs |-> <<>>,
     i |-> 1, successful |-> <<>>, errors |-> <<>>, attempted |-> <<>>,
     kind |-> "", documents_before |-> 0]

(***************************************************************************)
(* DocumentProcessor.convert_docx_to_pdf_with_abiword                      *)
(***************************************************************************)
\* error_msg when `which abiword` finds nothing.
NotInstalledMessage ==
    <<"A","b","i","W","o","r","d"," ","i","s"," ","n","o","t"," ","i","n","s",
      "t","a","l","l","e","d","."," ","P","D","F"," ","c","o","n","v","e","r",
      "s","i","o","n"," ","r","e","q","u","i","r","e","s"," ","A","b","i","W",
      "o","r","d",".">>

\* error_msg when AbiWord ran and left no PDF or an empty one (stdout and
\* stderr empty), as re-raised by the handler of Exception.
ConversionFailedMessage ==
    <<"U","n","e","x","p","e","c","t","e","d"," ","e","r","r","o","r"," ","i",
      "n"," ","A","b","i","W","o","r","d"," ","c","o","n","v","e","r","s","i",
      "o","n",":"," ","A","b","i","W","o","r","d"," ","f","a","i","l","e","d",
      " ","t","o"," ","g","e","n","e","r","a","t","e"," ","P","D","F",".",
      "\n","O","u","t","p","u","t",":"," ","\n","E","r","r","o","r","s",":",
      " ">>

\* A converter that failed with one message whatever the cause.
convert_docx_to_pdf_with_abiword_one_message(conversion) ==
    IF conversion = "ok"
    THEN [raised |-> FALSE, message |-> <<>>, pdf |-> "full"]
    ELSE [raised |-> TRUE, message |-> ConversionFailedMessage,
          pdf |-> IF conversion = "empty_file" THEN "empty" ELSE "none"]

\* The outcome of the conversion in an environment that behaves as
\* `conversion` says: whether RuntimeError was raised, its message, and what
\* stands at pdf_path afterwards.
convert_docx_to_pdf_with_abiword(conversion) ==
    IF conversion = "unavailable"
    THEN [raised |-> TRUE, message |-> NotInstalledMessage, pdf |-> "none"]
    ELSE IF conversion = "ok"
    THEN [raised |-> FALSE, message |-> <<>>, pdf |-> "full"]
    ELSE [raised |-> TRUE, message |-> ConversionFailedMessage,
          pdf |-> IF conversion = "empty_file" THEN "empty" ELSE "none"]

(***************************************************************************)
(* The generate view                                                       *)
(***************************************************************************)
Generate ==
    /\ proc.pc # "loop"
    /\ calls < MaxCalls
    /\ \E template_id \in RequestTemplateIds, raw \in RequestInputs, fault \in Faults :
       \E r \in {generate_document(template_id, FixInputs(raw), fault)} :
       \E format \in {"docx", "pdf"} :
       \E conversion \in (IF r.raised \/ format = "docx" THEN {"unused"} ELSE Conversions) :
       \E c \in {convert_docx_to_pdf_with_abiword(conversion)} :
          /\ documents' = r.documents
          /\ files' = r.files
          /\ uuids' = r.uuids
          /\ pdfs' = IF conversion # "unused" /\ c.pdf # "none"
                     THEN pdfs @@ (r.uuids :> c.pdf) ELSE pdfs
          /\ last' = [op |-> "generate", template_id |-> template_id,
                      user_inputs |-> FixInputs(raw),
                      response |->
                         IF r.raised
                         THEN (IF r.kind = "ValueError" THEN "flash_to_create"
                               ELSE IF r.kind = "NotFound" THEN "http_404"
                               ELSE "http_500")
                         ELSE IF format = "docx" THEN "send_docx"
                         ELSE IF ~c.raised THEN "send_pdf"
                         ELSE "flash_to_index",
                      conversion |-> conversion,
                      message |-> IF r.raised \/ format = "docx" THEN r.message
                                  ELSE c.message]
    /\ calls' = calls + 1
    /\ proc' = NoProc
    /\ UNCHANGED <<templates, batches, uploads, cache, catVars>>

(***************************************************************************)
(* process_batch                                                           *)
(***************************************************************************)
\* f"Template {template_id}: {str(e)}"
ErrorMsg(template_id, message) ==
    <<"T","e","m","p","l","a","t","e"," ">> \o IntToStr(template_id) \o <<":"," ">> \o message

\* A BatchGeneration row built without the status argument: the column
\* default 'pending' applies.
NewBatchWithDefaultStatus(batch_id, template_ids) ==
    [batch_id |-> batch_id, template_ids |-> template_ids,
     total_documents |-> Len(template_ids), status |-> "pending",
     successful_documents |-> 0,
     error_message |-> [null |-> TRUE, text |-> <<>>],
     completed_at |-> FALSE]

\* BatchGeneration(batch_id=..., template_ids=..., total_documents=...,
\* status='processing'); the other columns take their defaults.
NewBatch(batch_id, template_ids) ==
    [batch_id |-> batch_id, template_ids |-> template_ids,
     total_documents |-> Len(template_ids), status |-> "processing",
     successful_documents |-> 0,
     error_message |-> [null |-> TRUE, text |-> <<>>],
     completed_at |-> FALSE]

\* The batch view calls process_batch with a non-empty list of ids and the
\* form's inputs as posted.  The BatchGeneration row is added and
\* committed; if that commit fails the call raises.
BatchStart ==
    /\ proc.pc # "loop"
    /\ \E n \in 1..(MaxCalls - calls), commit_ok \in BOOLEAN :
       \E template_ids \in [1..n -> RequestTemplateIds], user_inputs \in RequestInputs :
         IF commit_ok
         THEN /\ batches' = Append(batches, NewBatch(Len(batches) + 1, template_ids))
              /\ proc' = [NoProc EXCEPT !.pc = "loop", !.batch = Len(batches) + 1,
                            !.template_ids = template_ids, !.user_inputs = user_inputs,
                            !.documents_before = Len(documents)]
         ELSE /\ batches' = batches
              /\ proc' = [NoProc EXCEPT !.pc = "raised"]
    /\ last' = NoView
    /\ UNCHANGED <<templates, documents, files, pdfs, uuids, calls, uploads, cache, catVars>>

\* A loop that stopped at the first item that failed.
AfterItemAborting(p, template_id, r, tag_ok) ==
    IF r.raised \/ ~tag_ok
    THEN [p EXCEPT !.i = Len(p.template_ids) + 1,
                   !.attempted = Append(@, template_id),
                   !.errors = Append(@, ErrorMsg(template_id, r.message)),
                   !.kind = r.kind]
    ELSE [p EXCEPT !.i = @ + 1, !.attempted = Append(@, template_id),
                   !.successful = Append(@, r.doc), !.kind = ""]

\* The locals of process_batch after the iteration for template_id, whose
\* generate_document call had outcome r and whose tagging commit succeeded
\* or not.
AfterItem(p, template_id, r, tag_ok) ==
    LET q == [p EXCEPT !.i = @ + 1, !.attempted = Append(@, template_id)]
    IN  IF r.raised
        THEN [q EXCEPT !.errors = Append(@, ErrorMsg(template_id, r.message)),
                       !.kind = r.kind]
        ELSE IF tag_ok
        THEN [q EXCEPT !.successful = Append(@, r.doc), !.kind = ""]
        ELSE [q EXCEPT !.errors = Append(@, ErrorMsg(template_id,
                            <<"c","o","m","m","i","t"," ","f","a","i","l","e","d">>)),
                       !.kind = "TagCommit"]

\* One iteration of the loop: generate_document for the next template id,
\* then the commit that tags the new row with the batch id; any exception
\* is appended to errors.
BatchItem ==
    /\ proc.pc = "loop"
    /\ proc.i <= Len(proc.template_ids)
    /\ \E fault \in Faults \ {"reopen", "adjust"}, tag_ok \in BOOLEAN :
         LET template_id == proc.template_ids[proc.i] IN
         \E r \in {generate_document(template_id, proc.user_inputs, fault)} :
             /\ files' = r.files
             /\ uuids' = r.uuids
             /\ documents' = IF ~r.raised /\ tag_ok
                             THEN [r.documents EXCEPT ![r.doc].batch_id = proc.batch]
                             ELSE r.documents
             /\ proc' = AfterItem(proc, template_id, r, tag_ok)
    /\ calls' = calls + 1
    /\ UNCHANGED <<templates, pdfs, batches, last, uploads, cache, catVars>>

\* A final update that marked every batch 'completed'.
FinishedBatchAlwaysCompleted(batch, successful, errors) ==
    [batch EXCEPT
        !.successful_documents = Len(successful),
        !.status = "completed",
        !.error_message = IF errors # <<>>
                          THEN [null |-> FALSE, text |-> Join(errors, <<"\n">>)]
                          ELSE [null |-> TRUE, text |-> <<>>],
        !.completed_at = TRUE]

\* batch.successful_documents, batch.status, batch.error_message and
\* batch.completed_at as assigned after the loop.
FinishedBatch(batch, successful, errors) ==
    [batch EXCEPT
        !.successful_documents = Len(successful),
        !.status = IF errors = <<>> THEN "completed" ELSE "completed_with_errors",
        !.error_message = IF errors # <<>>
                          THEN [null |-> FALSE, text |-> Join(errors, <<"\n">>)]
                          ELSE [null |-> TRUE, text |-> <<>>],
        !.completed_at = TRUE]

\* After the loop the row is updated and committed; a failing commit raises
\* and leaves the stored row as it was.
BatchFinish ==
    /\ proc.pc = "loop"
    /\ proc.i > Len(proc.template_ids)
    /\ \E commit_ok \in BOOLEAN :
         /\ IF commit_ok
            THEN /\ batches' = [batches EXCEPT ![proc.batch] =
                                    FinishedBatch(@, proc.successful, proc.errors)]
                 /\ proc' = [proc EXCEPT !.pc = "returned"]
            ELSE /\ batches' = batches
                 /\ proc' = [proc EXCEPT !.pc = "raised"]
    /\ UNCHANGED <<templates, documents, files, pdfs, uuids, calls, last, uploads, cache, catVars>>

(***************************************************************************)
(* Specifications                                                          *)
(***************************************************************************)
\* The state after two uploads: a letter with one token and an affidavit
\* with a repeated token and a date.
SysInit ==
    /\ templates =
          (1 :> NewTemplate(<<"l","e","t","t","e","r">>,
                    <<[name |-> T_name, formatting |-> [bold |-> FALSE]]>>))
       @@ (2 :> NewTemplate(<<"a","f","f","i","d","a","v","i","t">>,
                    <<[name |-> T_name, formatting |-> [bold |-> TRUE]],
                      [name |-> T_date, formatting |-> [bold |-> FALSE]],
                      [name |-> T_name, formatting |-> [bold |-> FALSE]]>>))
    /\ documents = <<>>
    /\ files = <<>>
    /\ pdfs = <<>>
    /\ uuids = 0
    /\ batches = <<>>
    /\ proc = NoProc
    /\ calls = 0
    /\ last = NoView
    /\ uploads = <<>>
    /\ cache = <<>>

\* The system variables while only the catalog is exercised, and the
\* catalog variables while only the system is.
SysUnused ==
    /\ templates = <<>> /\ documents = <<>> /\ files = <<>> /\ pdfs = <<>>
    /\ uuids = 0 /\ batches = <<>> /\ proc = NoProc /\ calls = 0
    /\ last = NoView /\ uploads = <<>> /\ cache = <<>>

CatUnused ==
    /\ placeholder_instances = <<>> /\ template_type = <<>>
    /\ stage = "unused" /\ rows = <<>> /\ view = NoView

Init == SysInit /\ CatUnused

Next == Generate \/ BatchStart \/ BatchItem \/ BatchFinish

Spec == Init /\ [][Next]_vars

\* process_batch runs inside one request: once the loop has been entered
\* the interpreter goes on to the next iteration and to the final update,
\* given that each generate_document call returns or raises.
BatchNext == BatchStart \/ BatchItem \/ BatchFinish

SpecBatchFair ==
    Init /\ [][BatchNext]_vars /\ WF_vars(BatchItem) /\ WF_vars(BatchFinish)

CatInit == CatStart /\ SysUnused

SpecCatalog == CatInit /\ [][CatNext]_vars

(***************************************************************************)
(* Ingestion of uploaded documents into the template store.                *)
(***************************************************************************)
MaxUploads == 1

\* What extract_template_variables finds in an uploaded document: up to two
\* tokens.
UploadedDocuments ==
    UNION { [1..n -> {[name |-> t, formatting |-> [bold |-> FALSE]] : t \in {T_name, T_date}}]
                : n \in 0..2 }

\* Where an upload request fails: nowhere, at the check of the file name,
\* when python-docx opens the saved file, in extract_template_variables, or
\* at the commit of the Placeholder rows.
UploadFaults == {"none", "not_docx", "unreadable", "extraction", "commit"}

\* Template(name, type, description, file_path), as committed before the
\* saved file is opened.
TemplateRecord(type) == [type |-> type, is_active |-> TRUE, placeholders |-> <<>>]

\* The id of the next Template row: one more than the greatest id in the
\* table.
NextTemplateId ==
    IF DOMAIN templates = {} THEN 1
    ELSE 1 + CHOOSE m \in DOMAIN templates : \A t \in DOMAIN templates : t <= m

\* The file saved by an upload: what it holds, the Template row whose
\* file_path names it, and whether it is still in the folder.
SavedFile(doc, template_id) ==
    [doc |-> doc, template_id |-> template_id, on_disk |-> TRUE]

\* POST /admin/upload with the admin key.
AdminUploadTemplate ==
    /\ Len(uploads) < MaxUploads
    /\ \E type \in TemplateTypes, doc \in UploadedDocuments, fault \in UploadFaults :
         LET template_id == NextTemplateId IN
         IF fault = "not_docx"
         THEN /\ last' = [op |-> "upload", response |-> "flash_invalid_file",
                          error |-> fault, template_id |-> 0]
              /\ UNCHANGED <<templates, uploads>>
         ELSE /\ uploads' = Append(uploads, SavedFile(doc, template_id))
              /\ IF fault = "none"
                 THEN /\ templates' = templates @@ (template_id :> NewTemplate(type, doc))
                      /\ last' = [op |-> "upload", response |-> "redirect_to_edit",
                                  error |-> fault, template_id |-> template_id]
                 ELSE /\ templates' = templates @@ (template_id :> TemplateRecord(type))
                      /\ last' = [op |-> "upload", response |-> "flash_error",
                                  error |-> fault, template_id |-> 0]
    /\ UNCHANGED <<documents, files, pdfs, uuids, batches, proc, calls, cache, catVars>>

\* GET /admin/template/<template_id>/delete with the admin key: the file is
\* removed if it is there, the row is deleted with its Placeholder and
\* CreatedDocument rows.
AdminDeleteTemplate ==
    /\ \E template_id \in DOMAIN templates \cup {NextTemplateId} :
         IF template_id \notin DOMAIN templates
         THEN /\ last' = [op |-> "delete", response |-> "http_404",
                          template_id |-> template_id]
              /\ UNCHANGED <<templates, uploads, documents>>
         ELSE /\ uploads' = [k \in 1..Len(uploads) |->
                                IF uploads[k].template_id = template_id
                                THEN [uploads[k] EXCEPT !.on_disk = FALSE]
                                ELSE uploads[k]]
              /\ templates' = [t \in DOMAIN templates \ {template_id} |-> templates[t]]
              /\ documents' = SelectSeq(documents, LAMBDA d : d.template_id # template_id)
              /\ last' = [op |-> "delete", response |-> "redirect_to_templates",
                          template_id |-> template_id]
    /\ UNCHANGED <<files, pdfs, uuids, batches, proc, calls, cache, catVars>>

\* The cache keys: the index view's response (by request path, whatever the
\* query string) and the list of template types.
ViewKey == "view//"
TypesKey == "template_types"

\* [t[0] for t in db.session.query(Template.type).distinct().all()]
DistinctTypes == {templates[t].type : t \in DOMAIN templates}

\* Template.query.filter_by(is_active=True), filtered by type if asked.
ListedTemplates(type_filter) ==
    {t \in DOMAIN templates :
        /\ templates[t].is_active
        /\ type_filter # <<>> => templates[t].type = type_filter}

\* GET /: the response cached for the path if there is one; otherwise the
\* page is built, with the cached type list if there is one, and cached.
index ==
    /\ \E type_filter \in {<<>>} \cup TemplateTypes :
         IF ViewKey \in DOMAIN cache
         THEN /\ last' = [op |-> "index", type_filter |-> type_filter,
                          page |-> cache[ViewKey]]
              /\ cache' = cache
         ELSE LET types == IF TypesKey \in DOMAIN cache THEN cache[TypesKey]
                           ELSE DistinctTypes
                  page  == [types |-> types, templates |-> ListedTemplates(type_filter),
                            type_filter |-> type_filter]
              IN  /\ last' = [op |-> "index", type_filter |-> type_filter, page |-> page]
                  /\ cache' = (ViewKey :> page) @@ (TypesKey :> types)
    /\ UNCHANGED <<templates, documents, files, pdfs, uuids, batches, proc, calls,
                   uploads, catVars>>

\* A cached value reaches its timeout (30 s for the view, 300 s for the
\* type list).
CacheTimeout ==
    /\ \E key \in DOMAIN cache : cache' = [k \in DOMAIN cache \ {key} |-> cache[k]]
    /\ UNCHANGED <<templates, documents, files, pdfs, uuids, batches, proc, calls, last,
                   uploads, catVars>>

UploadInit == SysInit /\ CatUnused

UploadNext == AdminUploadTemplate \/ AdminDeleteTemplate \/ index \/ CacheTimeout

SpecUpload == UploadInit /\ [][UploadNext]_vars

(***************************************************************************)
(* Pausing and resuming templates while documents are generated.           *)
(***************************************************************************)
\* Template ids a pause or resume request may name: the letter template and
\* the id that no template has.
PauseTemplateIds == {1, 3}

\* GET /admin/template/<template_id>/pause with the admin key.
admin_pause_template ==
    /\ proc.pc # "loop"
    /\ \E template_id \in PauseTemplateIds :
         IF template_id \notin DOMAIN templates
         THEN /\ last' = [op |-> "pause", template_id |-> template_id,
                          response |-> "http_404"]
              /\ templates' = templates
         ELSE /\ templates' = [templates EXCEPT ![template_id].is_active = FALSE]
              /\ last' = [op |-> "pause", template_id |-> template_id,
                          response |-> "redirect_to_templates"]
    /\ UNCHANGED <<documents, files, pdfs, uuids, batches, proc, calls, uploads, cache,
                   catVars>>

\* GET /admin/template/<template_id>/resume with the admin key.
admin_resume_template ==
    /\ proc.pc # "loop"
    /\ \E template_id \in PauseTemplateIds :
         IF template_id \notin DOMAIN templates
         THEN /\ last' = [op |-> "resume", template_id |-> template_id,
                          response |-> "http_404"]
              /\ templates' = templates
         ELSE /\ templates' = [templates EXCEPT ![template_id].is_active = TRUE]
              /\ last' = [op |-> "resume", template_id |-> template_id,
                          response |-> "redirect_to_templates"]
    /\ UNCHANGED <<documents, files, pdfs, uuids, batches, proc, calls, uploads, cache,
                   catVars>>

PauseInit == SysInit /\ CatUnused

PauseNext ==
    \/ admin_pause_template \/ admin_resume_template
    \/ Generate \/ BatchStart \/ BatchItem \/ BatchFinish

SpecPause == PauseInit /\ [][PauseNext]_vars

(***************************************************************************)
(* Downloads: one document, or the documents of a batch as an archive.     *)
(***************************************************************************)
MaxDocuments == 3

\* The CreatedDocument rows of the download specification: all but the last
\* were generated by batch 1, the last by a single generate request.
StoredDocuments ==
    [d \in 1..MaxDocuments |->
        [template_id |-> 1, file_path |-> d,
         batch_id |-> IF d < MaxDocuments THEN 1 ELSE 0]]

\* CreatedDocument.query.filter_by(batch_id=batch_id).all()
DocumentsOfBatch(batch_id) ==
    {d \in 1..Len(documents) : documents[d].batch_id = batch_id}

\* GET /batch_download/<batch_id>: each document's .docx if it is on disk,
\* and with it the .pdf if that is on disk too.
BatchDownload ==
    /\ \E batch_id \in 1..(Len(batches) + 1), zip_ok \in BOOLEAN :
         LET docs == DocumentsOfBatch(batch_id) IN
         last' = IF batch_id > Len(batches)
                 THEN [op |-> "batch_download", batch_id |-> batch_id,
                       response |-> "http_404", archive |-> {}]
                 ELSE IF docs = {}
                 THEN [op |-> "batch_download", batch_id |-> batch_id,
                       response |-> "flash_no_documents", archive |-> {}]
                 ELSE IF ~zip_ok
                 THEN [op |-> "batch_download", batch_id |-> batch_id,
                       response |-> "flash_error", archive |-> {}]
                 ELSE [op |-> "batch_download", batch_id |-> batch_id,
                       response |-> "send_zip",
                       archive |->
                          {<<d, "docx">> : d \in docs \cap DOMAIN files}
                            \cup {<<d, "pdf">> : d \in docs \cap DOMAIN files \cap DOMAIN pdfs}]
    /\ UNCHANGED <<templates, documents, files, pdfs, uuids, batches, proc, calls,
                   uploads, cache, catVars>>

\* GET /batch_download_pdf/<batch_id>: each document's .pdf, converted from
\* the .docx first where no .pdf is on disk and the .docx is; a document
\* whose conversion raises is passed over.  During one request the converter
\* is installed or it is not.
BatchDownloadPdf ==
    /\ \E batch_id \in 1..(Len(batches) + 1), zip_ok \in BOOLEAN :
         LET docs == DocumentsOfBatch(batch_id) IN
         \E conversions \in [docs -> Conversions \ {"unavailable"}] \cup [docs -> {"unavailable"}] :
         LET converted == {d \in docs : d \notin DOMAIN pdfs /\ d \in DOMAIN files}
             c == [d \in converted |-> convert_docx_to_pdf_with_abiword(conversions[d])]
             written == {d \in converted : c[d].pdf # "none"}
             after == [d \in DOMAIN pdfs \cup written |->
                            IF d \in written THEN c[d].pdf ELSE pdfs[d]]
         IN  IF batch_id > Len(batches)
             THEN /\ last' = [op |-> "batch_download_pdf", batch_id |-> batch_id,
                              response |-> "http_404", archive |-> {},
                              conversions |-> conversions]
                  /\ pdfs' = pdfs
             ELSE IF docs = {}
             THEN /\ last' = [op |-> "batch_download_pdf", batch_id |-> batch_id,
                              response |-> "flash_no_documents", archive |-> {},
                              conversions |-> conversions]
                  /\ pdfs' = pdfs
             ELSE /\ pdfs' = after
                  /\ last' = [op |-> "batch_download_pdf", batch_id |-> batch_id,
                              response |-> IF zip_ok THEN "send_zip" ELSE "flash_error",
                              archive |->
                                 IF zip_ok
                                 THEN {<<d, "pdf">> : d \in
                                         {e \in docs : /\ e \in DOMAIN after
                                                       /\ e \in converted => ~c[e].raised}}
                                 ELSE {},
                              conversions |-> conversions]
    /\ UNCHANGED <<templates, documents, files, uuids, batches, proc, calls,
                   uploads, cache, catVars>>

\* GET /download/<document_id>/<format>
Download ==
    /\ \E document_id \in 1..(Len(documents) + 1), format \in {"docx", "pdf", "txt"},
          conversion \in Conversions :
         \E c \in {convert_docx_to_pdf_with_abiword(conversion)} :
         LET Answer(response) ==
                [op |-> "download", document_id |-> document_id, format |-> format,
                 conversion |-> conversion, response |-> response]
         IN  IF document_id > Len(documents) \/ document_id \notin DOMAIN files
             THEN last' = Answer("http_404") /\ pdfs' = pdfs
             ELSE IF format = "docx"
             THEN last' = Answer("send_docx") /\ pdfs' = pdfs
             ELSE IF format = "pdf" /\ document_id \notin DOMAIN pdfs
             THEN /\ pdfs' = IF c.pdf # "none" THEN pdfs @@ (document_id :> c.pdf) ELSE pdfs
                  /\ last' = Answer(IF c.raised THEN "http_500" ELSE "send_pdf")
             ELSE last' = Answer("http_400") /\ pdfs' = pdfs
    /\ UNCHANGED <<templates, documents, files, uuids, batches, proc, calls,
                   uploads, cache, catVars>>

\* A finished batch and a single document, with any of the .docx files and
\* any of the .pdf files on disk.
DownloadInit ==
    /\ templates = (1 :> NewTemplate(<<"l","e","t","t","e","r">>,
                          <<[name |-> T_name, formatting |-> [bold |-> FALSE]]>>))
    /\ documents = StoredDocuments
    /\ batches = <<FinishedBatch(NewBatch(1, [d \in 1..(MaxDocuments - 1) |-> 1]),
                                 [d \in 1..(MaxDocuments - 1) |-> d], <<>>)>>
    /\ \E on_disk \in SUBSET (1..MaxDocuments) :
          files = [d \in on_disk |->
                      [context |-> (T_name :> <<"A","d","a">>), adjusted |-> TRUE]]
    /\ \E converted \in SUBSET (1..MaxDocuments) :
          pdfs \in [converted -> {"full", "empty"}]
    /\ uuids = MaxDocuments
    /\ proc = NoProc
    /\ calls = MaxDocuments
    /\ last = NoView
    /\ uploads = <<>>
    /\ cache = <<>>
    /\ CatUnused

DownloadNext == BatchDownload \/ BatchDownloadPdf \/ Download

SpecDownload == DownloadInit /\ [][DownloadNext]_vars

(***************************************************************************)
(* Properties of the catalog specification.                                *)
(***************************************************************************)
Stored == stage \in {"stored", "edited"}

\* The number of occurrences of the token at position i up to and
\* including position i.
OccurrenceNumber(i) ==
    Cardinality({j \in 1..i : placeholder_instances[j].name = placeholder_instances[i].name})

\* The position of the first occurrence of the token found at position i.
FirstOccurrence(i) ==
    CHOOSE j \in 1..i :
        /\ placeholder_instances[j].name = placeholder_instances[i].name
        /\ \A k \in 1..(j - 1) :
              placeholder_instances[k].name # placeholder_instances[i].name

\* The positions that hold the first occurrence of a token name.
FirstPositions == {i \in 1..Len(placeholder_instances) : FirstOccurrence(i) = i}

\* The blank raw values: key missing, empty, or whitespace only.
IsBlankInput(user_inputs, key) ==
    \/ key \notin DOMAIN user_inputs
    \/ \A i \in 1..Len(user_inputs[key]) : IsSpace(user_inputs[key][i])

IsRequiredMessage(label) == label \o <<" ","i","s"," ","r","e","q","u","i","r","e","d">>

\* The base names of the rows handed to validate_inputs, and the rows of
\* one base name.
ViewBases == {BaseNameOf(view.placeholders[i].name) : i \in 1..Len(view.placeholders)}
ViewGroup(b) ==
    {i \in 1..Len(view.placeholders) : BaseNameOf(view.placeholders[i].name) = b}

\* The groups that must be reported: a required member and a blank value.
ViewFailing ==
    {b \in ViewBases :
        /\ \E i \in ViewGroup(b) : view.placeholders[i].is_required
        /\ IsBlankInput(view.user_inputs, b)}

\* errors holds one message per failing group and nothing else, where
\* Label(ph, b) is the label expected in the message for group b, whose
\* member of least sort_order is ph.
OneMessagePerFailingGroup(Label(_, _)) ==
    LET phs      == view.placeholders
        base     == [i \in 1..Len(phs) |-> BaseNameOf(phs[i].name)]
        bases    == {base[i] : i \in 1..Len(phs)}
        group    == [b \in bases |-> {i \in 1..Len(phs) : base[i] = b}]
        lowest   == [b \in bases |->
                        phs[CHOOSE i \in group[b] :
                                \A j \in group[b] : phs[i].sort_order <= phs[j].sort_order]]
        failing  == {b \in bases :
                        /\ \E i \in group[b] : phs[i].is_required
                        /\ IsBlankInput(view.user_inputs, b)}
        expected == [b \in failing |-> IsRequiredMessage(Label(lowest[b], b))]
    IN  /\ Len(view.errors) = Cardinality(failing)
        /\ \A k \in 1..Len(view.errors) : \E b \in failing : view.errors[k] = expected[b]
        /\ \A b \in failing :
              Cardinality({k \in 1..Len(view.errors) : view.errors[k] = expected[b]})
                = Cardinality({c \in failing : expected[c] = expected[b]})

\* C6 as stated: validate_inputs emits exactly one "<display name> is
\* required" per group with a required member and a missing, empty or blank
\* value, with the display name of the member of least sort_order, and
\* nothing for the other groups.
C6_Original ==
    view.op = "validate" =>
        OneMessagePerFailingGroup(LAMBDA ph, b : ph.display_name)

\* C6 amended: as C6, except that the message names the group's base name
\* when the display name of the member of least sort_order is empty.
C6_Amended ==
    view.op = "validate" =>
        OneMessagePerFailingGroup(
            LAMBDA ph, b : IF ph.display_name # <<>> THEN ph.display_name ELSE b)

\* C6 witness: validation ran on rows holding a group of two members, one of
\* them required, whose value is blank, and a group without a required
\* member whose value is blank too; one message came out.
C6_Witness ==
    /\ view.op = "validate"
    /\ \E b \in ViewFailing : Cardinality(ViewGroup(b)) >= 2
    /\ \E b \in ViewBases \ ViewFailing : IsBlankInput(view.user_inputs, b)
    /\ Len(view.errors) = 1

\* C8 as stated: in the context of a request that passed validation, every
\* second or later occurrence of a token (stored as name_instance_k) has the
\* value of the token's first occurrence.
C8_InstancesShareValue ==
    view.op = "context" =>
        \A i \in 1..Len(rows) :
            OccurrenceNumber(i) >= 2 =>
                view.context[rows[i].name] = view.context[rows[FirstOccurrence(i)].name]

\* C9 as stated: the form catalog of create() holds exactly one entry per
\* distinct token name, in the order of the names' first occurrences, and
\* each entry is the first occurrence of its name with that occurrence's
\* formatting.
C9_OneEntryPerToken ==
    view.op = "create" =>
        /\ Len(view.form) = Cardinality(FirstPositions)
        /\ \A k \in 1..Len(view.form) :
              \E i \in FirstPositions :
                 /\ Cardinality({j \in FirstPositions : j <= i}) = k
                 /\ view.form[k].name = placeholder_instances[i].name
                 /\ view.form[k].sort_order = i - 1
                 /\ view.form[k].formatting = placeholder_instances[i].formatting

\* C10: the occurrence at position i (from 0) is stored with sort_order i;
\* the first occurrence of a token is stored under the token's name and its
\* k-th occurrence (k >= 2) under <name>_instance_<k>; and the sort_order of
\* a merged form entry is the least sort_order of the rows merged into it.
C10_SortOrderAndInstances ==
    /\ Stored =>
          /\ Len(rows) = Len(placeholder_instances)
          /\ \A i \in 1..Len(rows) :
                /\ rows[i].sort_order = i - 1
                /\ \A j \in 1..(i - 1) : rows[j].sort_order < rows[i].sort_order
                /\ OccurrenceNumber(i) = 1 => rows[i].name = placeholder_instances[i].name
                /\ OccurrenceNumber(i) >= 2 =>
                      rows[i].name = placeholder_instances[i].name \o InstanceMark
                                        \o IntToStr(OccurrenceNumber(i))
    /\ view.op = "create" =>
          \A k \in 1..Len(view.form) :
             LET merged == {i \in 1..Len(rows) : BaseNameOf(rows[i].name) = view.form[k].name}
             IN  /\ merged # {}
                 /\ \E i \in merged : rows[i].sort_order = view.form[k].sort_order
                 /\ \A i \in merged : rows[i].sort_order >= view.form[k].sort_order

\* C10 witness: a token occurs three times, its rows are stored, and the
\* form catalog merged them into one entry.
C10_Witness ==
    /\ view.op = "create"
    /\ \E i \in 1..Len(rows) : OccurrenceNumber(i) = 3
    /\ \E k \in 1..Len(view.form) :
          Cardinality({i \in 1..Len(rows) : BaseNameOf(rows[i].name) = view.form[k].name}) = 3

(***************************************************************************)
(* Properties of the generation system.                                    *)
(***************************************************************************)
\* A process_batch call whose BatchGeneration row was created.
BatchRunning == proc.batch # 0

\* The CreatedDocument rows added since the process_batch call began.
RowsAddedByBatch == Len(documents) - proc.documents_before

\* The CreatedDocument rows that carry the batch id of the call.
RowsTagged == {d \in 1..Len(documents) : documents[d].batch_id = proc.batch}

\* C1: process_batch calls generate_document once for each element of
\* template_ids, in input order: after k iterations the ids attempted are
\* the first k ids, each iteration added either one success or one error
\* entry, that names the id it was made for, and the loop is left only
\* when every id has been attempted, whatever failed on the way.
C1_EveryIdAttemptedInOrder ==
    BatchRunning =>
        /\ proc.attempted = SubSeq(proc.template_ids, 1, proc.i - 1)
        /\ Len(proc.successful) + Len(proc.errors) = proc.i - 1
        /\ \A e \in 1..Len(proc.errors) :
              \E k \in 1..Len(proc.attempted) :
                 StartsWithAt(proc.errors[e], ErrorMsg(proc.attempted[k], <<>>), 1)
        /\ (proc.pc # "loop" => proc.attempted = proc.template_ids)

\* A batch whose first item failed (no template has the id) and whose
\* second item was generated all the same.
C1_Witness ==
    /\ proc.pc = "returned"
    /\ proc.template_ids = <<3, 1>>
    /\ Len(proc.errors) = 1
    /\ StartsWithAt(proc.errors[1], ErrorMsg(3, <<>>), 1)
    /\ Len(proc.successful) = 1
    /\ documents[proc.successful[1]].template_id = 1

\* C2: when process_batch returns, the stored row has successful_documents
\* equal to the number of successful items, successful_documents plus the
\* number of errors equal to total_documents, which is the length of
\* template_ids, status 'completed' exactly when there is no error and
\* 'completed_with_errors' otherwise, and completed_at set.
C2_CountsAndStatusOnReturn ==
    proc.pc = "returned" =>
        LET batch == batches[proc.batch] IN
        /\ batch.successful_documents = Len(proc.successful)
        /\ batch.total_documents = Len(proc.template_ids)
        /\ batch.successful_documents + Len(proc.errors) = batch.total_documents
        /\ (batch.status = "completed") = (proc.errors = <<>>)
        /\ (batch.status = "completed_with_errors") = (proc.errors # <<>>)
        /\ batch.error_message.null = (proc.errors = <<>>)
        /\ batch.completed_at

\* The batch [valid, invalid, valid]: 2 successes, 1 error,
\* completed_with_errors.
C2_Witness ==
    /\ proc.pc = "returned"
    /\ proc.template_ids = <<1, 3, 1>>
    /\ batches[proc.batch].successful_documents = 2
    /\ Len(proc.errors) = 1
    /\ batches[proc.batch].status = "completed_with_errors"

\* C3: at the end of a batch the CreatedDocument rows carrying its batch id
\* are exactly the items counted in successful_documents, and an item
\* recorded as an error has left no row behind: every row added during the
\* call belongs to a successful item.
C3_TaggedRowsAreTheSuccesses ==
    proc.pc = "returned" =>
        /\ RowsTagged = {proc.successful[k] : k \in 1..Len(proc.successful)}
        /\ Cardinality(RowsTagged) = batches[proc.batch].successful_documents
        /\ RowsAddedByBatch = Len(proc.successful)

\* C4: a BatchGeneration row is never stored as 'pending'; it is created as
\* 'processing', and the only change ever made to a stored row takes it
\* from 'processing' to 'completed' or 'completed_with_errors', after which
\* its status, counts and error list stay as they are.
C4_StatusOnlyMovesForward ==
    /\ [](\A b \in 1..Len(batches) :
            batches[b].status \in {"processing", "completed", "completed_with_errors"})
    /\ [][ /\ Len(batches') >= Len(batches)
           /\ \A b \in 1..Len(batches') :
                IF b > Len(batches)
                THEN batches'[b].status = "processing"
                ELSE batches'[b] # batches[b] =>
                        /\ batches[b].status = "processing"
                        /\ batches'[b].status \in {"completed", "completed_with_errors"}
         ]_vars

\* A finished batch, and a later batch that has been run to its end since.
C4_Witness ==
    /\ Len(batches) = 2
    /\ batches[1].status = "completed_with_errors"
    /\ batches[2].status = "completed"
    /\ proc.pc = "returned"

\* C5: process_batch raises only if the initial BatchGeneration row could
\* not be created and committed; once the row exists nothing propagates.
C5_RaisesOnlyAtInitialisation ==
    proc.pc = "raised" => ~BatchRunning

\* A step in which generate_document was called and raised its validation
\* error: by the generate view, or by an iteration of process_batch.
ValidationFailedStep ==
    /\ calls' = calls + 1
    /\ \/ proc'.pc = "idle" /\ last'.response = "flash_to_create"
       \/ proc'.pc = "loop" /\ proc'.kind = "ValueError"

\* C7: when validate_inputs returns errors, generate_document raises before
\* anything is written: the generated files, the CreatedDocument rows, the
\* placeholders and the raw inputs are what they were before the call.
C7_ValidationFailureWritesNothing ==
    [][ ValidationFailedStep =>
          /\ files' = files /\ pdfs' = pdfs /\ uuids' = uuids
          /\ documents' = documents
          /\ templates' = templates
          /\ (proc'.pc = "loop" => proc'.user_inputs = proc.user_inputs)
      ]_vars

\* The generate view has answered a request for the affidavit that lacks the
\* date with the validation message, while a document generated earlier is
\* on disk and in the table.
C7_Witness ==
    /\ last.op = "generate"
    /\ last.response = "flash_to_create"
    /\ last.template_id = 2
    /\ Len(documents) = 1
    /\ DOMAIN files = {1}

(***************************************************************************)
(* The transforms and inference rules on their own: each behaviour applies *)
(* one of them to one input and keeps the result in view.                  *)
(***************************************************************************)
MaxTextLen == 4

\* "%04d-%02d-%02d" % (y, m, d), the way a date input posts a date.
Pad2(n) == IF n < 10 THEN <<"0">> \o IntToStr(n) ELSE IntToStr(n)

DateString(y, m, d) == IntToStr(y) \o <<"-">> \o Pad2(m) \o <<"-">> \o Pad2(d)

\* Calendar dates of a leap year and of an ordinary year.
Dates ==
    {date \in [year : {2024, 2025}, month : 1..12, day : 1..31] :
        date.day <= DaysInMonth(date.year, date.month)}

\* Template types as stored: the two styles, one of them also capitalised,
\* and a type that is neither.
Styles ==
    {<<"l","e","t","t","e","r">>, <<"a","f","f","i","d","a","v","i","t">>,
     <<"L","e","t","t","e","r">>, <<"m","e","m","o">>}

FnInit == CatUnused /\ SysUnused

\* format_date(date_string, template_type) on a calendar date, on an empty
\* string and on a string that is no date.
FnFormatDate ==
    /\ view = NoView
    /\ \E style \in Styles :
         \/ \E date \in Dates :
               LET date_string == DateString(date.year, date.month, date.day) IN
               view' = [op |-> "format_date", date |-> date,
                        date_string |-> date_string, template_type |-> style,
                        result |-> format_date(date_string, style, Today)]
         \/ \E date_string \in {<<>>, <<" ">>, <<"A","d","a">>} :
               view' = [op |-> "format_date", date |-> [year |-> 0, month |-> 0, day |-> 0],
                        date_string |-> date_string, template_type |-> style,
                        result |-> format_date(date_string, style, Today)]
    /\ UNCHANGED <<placeholder_instances, template_type, stage, rows, sysVars>>

\* The ordinal suffix as the rules give it: th for 11, 12 and 13, otherwise
\* st, nd, rd for a last digit 1, 2, 3, and th for any other.
SuffixByRule(d) ==
    IF d \in {11, 12, 13} THEN <<"t","h">>
    ELSE IF d % 10 = 1 THEN <<"s","t">>
    ELSE IF d % 10 = 2 THEN <<"n","d">>
    ELSE IF d % 10 = 3 THEN <<"r","d">>
    ELSE <<"t","h">>

\* C11: on a calendar date format_date returns "<day><suffix> <Month>,
\* <year>" for the style letter and "<day><suffix> of <Month>, <year>" for
\* the style affidavit, with the suffix the rules give for the day.
C11_DateFormats ==
    (view.op = "format_date" /\ view.date.day > 0) =>
        LET day   == IntToStr(view.date.day) \o SuffixByRule(view.date.day)
            month == MonthName(view.date.month)
            year  == IntToStr(view.date.year)
        IN  /\ view.template_type = <<"l","e","t","t","e","r">> =>
                 view.result = day \o <<" ">> \o month \o <<","," ">> \o year
            /\ view.template_type = <<"a","f","f","i","d","a","v","i","t">> =>
                 view.result = day \o <<" ","o","f"," ">> \o month \o <<","," ">> \o year

\* 2025-09-22 for an affidavit gives "22nd of September, 2025".
C11_Witness ==
    /\ view.op = "format_date"
    /\ view.date_string = <<"2","0","2","5","-","0","9","-","2","2">>
    /\ view.template_type = <<"a","f","f","i","d","a","v","i","t">>
    /\ view.result = <<"2","2","n","d"," ","o","f"," ","S","e","p","t","e","m","b","e","r",","," ","2","0","2","5">>

\* The texts of at most MaxTextLen characters over an alphabet.
TextsOver(alphabet) == UNION {[1..n -> alphabet] : n \in 0..MaxTextLen}

\* Addresses: short texts of letters, commas, blanks and periods, and the
\* address of three segments.
Addresses ==
    TextsOver({"a", ",", " ", "."}) \cup
    {<<"2","4"," ","A","v","e",","," ","O","s","a","t","o"," ","J","u","n","c","t","i","o","n",","," ","B","e","n","i","n"," ","C","i","t","y">>}

\* format_address(address_string, template_type)
FnFormatAddress ==
    /\ view = NoView
    /\ \E address_string \in Addresses, style \in Styles :
         view' = [op |-> "format_address", address_string |-> address_string,
                  template_type |-> style,
                  result |-> format_address(address_string, style)]
    /\ UNCHANGED <<placeholder_instances, template_type, stage, rows, sysVars>>

\* Values to be cased: short texts of a letter in both cases, a blank and
\* the letter whose lowercase form is two characters long.
CasedValues == TextsOver({"a", "A", " ", CapitalIWithDot})

\* The casing modes, and one that is none of them.
Casings == {"upper", "lower", "title", "none", "sentence"}

\* apply_casing(value, casing)
FnApplyCasing ==
    /\ view = NoView
    /\ \E value \in CasedValues, casing \in Casings :
         view' = [op |-> "apply_casing", value |-> value, casing |-> casing,
                  result |-> apply_casing(value, casing)]
    /\ UNCHANGED <<placeholder_instances, template_type, stage, rows, sysVars>>

\* Texts that may hold an ordinal: a digit, the letters of "th" in both
\* cases and a blank, and the two dates of the docstring.
OrdinalTexts ==
    TextsOver({"1", "T", "h", "H", " "})
        \cup { <<"1","9","T","h"," ","S","e","p","t","e","m","b","e","r">>,
               <<"1","9","T","H"," ","S","E","P","T","E","M","B","E","R">> }

\* fix_date_ordinal_casing(text)
FnFixOrdinal ==
    /\ view = NoView
    /\ \E text \in OrdinalTexts :
         view' = [op |-> "fix_date_ordinal_casing", text |-> text,
                  result |-> fix_date_ordinal_casing(text)]
    /\ UNCHANGED <<placeholder_instances, template_type, stage, rows, sysVars>>

\* Field names: one to MaxWords words of the rules' vocabulary, some in
\* capitals, written one after the other.
MaxWords == 2
NameWords ==
    { <<"n","a","m","e">>,
      <<"d","a","t","e">>,
      <<"D","a","t","e">>,
      <<"e","m","a","i","l">>,
      <<"E","M","A","I","L">>,
      <<"n","u","m","b","e","r">>,
      <<"A","m","o","u","n","t">>,
      <<"r","e","g","_","n","o">>,
      <<"u","r","l">>,
      <<"g","e","n","d","e","r">>,
      <<"r","e","l","a","t","i","o","n">>,
      <<"h","e","_","s","h","e">>,
      <<"h","i","s","_","h","e","r">>,
      <<"r","e","l","i","g","i","o","n">>,
      <<"l","e","v","e","l">>,
      <<"_">> }
FieldNames == { Concat(ws) : ws \in UNION {[1..n -> NameWords] : n \in 1..MaxWords} }

\* detect_variable_type(var_name)
FnDetectType ==
    /\ view = NoView
    /\ \E var_name \in FieldNames :
         view' = [op |-> "detect_variable_type", var_name |-> var_name,
                  result |-> detect_variable_type(var_name)]
    /\ UNCHANGED <<placeholder_instances, template_type, stage, rows, sysVars>>

(***************************************************************************)
(* DocumentProcessor.extract_template_variables                            *)
(***************************************************************************)
\* The first position from `from` on whose character is not of the class
\* (\s when word is FALSE, \w when it is TRUE), or the position after the
\* text's end.
SpanEnd(text, from, word) ==
    CHOOSE q \in from..(Len(text) + 1) :
        /\ q = Len(text) + 1
           \/ ~(IF word THEN IsWordChar(text[q]) ELSE IsSpace(text[q]))
        /\ \A j \in from..(q - 1) :
                IF word THEN IsWordChar(text[j]) ELSE IsSpace(text[j])

\* re.match of \{\{\s*(\w+)\s*\}\} at position p of the text: start and
\* end as match.start() and match.end() count them, from 0.
MatchAt(text, p) ==
    LET q1 == SpanEnd(text, p + 2, FALSE)
        q2 == SpanEnd(text, q1, TRUE)
        q3 == SpanEnd(text, q2, FALSE)
    IN  IF /\ p + 1 <= Len(text) /\ text[p] = "{" /\ text[p + 1] = "{"
           /\ q2 > q1
           /\ q3 + 1 <= Len(text) /\ text[q3] = "}" /\ text[q3 + 1] = "}"
        THEN [found |-> TRUE, start |-> p - 1, end |-> q3 + 1,
              var_name |-> SubSeq(text, q1, q2 - 1)]
        ELSE [found |-> FALSE, start |-> 0, end |-> 0, var_name |-> <<>>]

\* A search that reported only the first match of each name.
RECURSIVE finditer_once_per_name(_, _)
finditer_once_per_name(text, p) ==
    IF p > Len(text) THEN <<>>
    ELSE LET m == MatchAt(text, p) IN
         IF m.found
         THEN LET rest == finditer_once_per_name(text, m.end + 1)
              IN  <<m>> \o SelectSeq(rest, LAMBDA r : r.var_name # m.var_name)
         ELSE finditer_once_per_name(text, p + 1)

\* re.finditer(pattern, full_text) from position p on: the matches from
\* left to right, each search starting where the last match ended.
RECURSIVE finditer(_, _)
finditer(text, p) ==
    IF p > Len(text) THEN <<>>
    ELSE LET m == MatchAt(text, p) IN
         IF m.found THEN <<m>> \o finditer(text, m.end + 1)
         ELSE finditer(text, p + 1)

\* cum_pos: cum_pos[k] is the length of the first k runs' text.
RECURSIVE CumPos(_, _)
CumPos(runs_text, k) ==
    IF k = 0 THEN 0 ELSE CumPos(runs_text, k - 1) + Len(runs_text[k])

\* The occurrences recorded for one paragraph, given as its runs.
ParagraphInstances(runs, para_idx) ==
    LET runs_text == [r \in 1..Len(runs) |-> runs[r].text]
        full_text == Concat(runs_text)
        matches   == finditer(full_text, 1)
        cum_pos   == [k \in 0..Len(runs) |-> CumPos(runs_text, k)]
        Holding(start_pos) ==
            {idx \in 0..(Len(runs) - 1) :
                cum_pos[idx] <= start_pos /\ start_pos < cum_pos[idx + 1]}
        found     == SelectSeq(matches, LAMBDA m : Holding(m.start) # {})
    IN  [k \in 1..Len(found) |->
            LET run_idx == CHOOSE idx \in Holding(found[k].start) :
                               \A other \in Holding(found[k].start) : idx <= other
            IN  [name |-> found[k].var_name,
                 paragraph_index |-> para_idx,
                 run_index |-> run_idx,
                 formatting |-> [bold |-> runs[run_idx + 1].bold]]]

\* extract_template_variables on a document given as its paragraphs.
extract_template_variables(paragraphs) ==
    Concat([k \in 1..Len(paragraphs) |-> ParagraphInstances(paragraphs[k], k - 1)])

MaxRuns == 3

\* Run texts: pieces of tokens, whole tokens, and text between tokens.
RunTexts ==
    { <<>>,
      <<"{","{">>,
      <<"}","}">>,
      <<"a">>,
      <<"{","{","a","}","}">>,
      <<"{","{"," ","b"," ","}","}">>,
      <<" ","a","}","}"," ","{","{","a">>,
      <<"}","}","a","{","{","b","}","}">> }

\* Paragraphs of one to MaxRuns runs, every other run bold.
Paragraphs ==
    { [r \in 1..n |-> [text |-> texts[r], bold |-> r % 2 = 0]] :
        n \in 1..MaxRuns, texts \in [1..MaxRuns -> RunTexts] }

\* Documents: one paragraph, or one after a paragraph that holds a token or
\* after an empty one.
Documents ==
    { <<para>> : para \in Paragraphs }
        \cup { <<first, para>> :
                first \in { <<[text |-> <<"{","{","a","}","}">>, bold |-> FALSE]>>,
                            <<[text |-> <<>>, bold |-> FALSE]>> },
                para \in Paragraphs }

\* extract_template_variables(template_path)
FnExtract ==
    /\ view = NoView
    /\ \E paragraphs \in Documents :
         view' = [op |-> "extract_template_variables", paragraphs |-> paragraphs,
                  result |-> extract_template_variables(paragraphs)]
    /\ UNCHANGED <<placeholder_instances, template_type, stage, rows, sysVars>>

\* get_smart_placeholder_default(var_name)
FnSmartDefault ==
    /\ view = NoView
    /\ \E var_name \in FieldNames :
         view' = [op |-> "get_smart_placeholder_default", var_name |-> var_name,
                  result |-> get_smart_placeholder_default(var_name)]
    /\ UNCHANGED <<placeholder_instances, template_type, stage, rows, sysVars>>

\* The segments joined by line breaks, a comma after each but the last and
\* a period at the end of the last unless it has one.
PunctuatedLines(segments) ==
    Join([i \in 1..Len(segments) |->
            IF i < Len(segments) THEN segments[i] \o <<",">>
            ELSE IF segments[i] # <<>> /\ segments[i][Len(segments[i])] = "."
            THEN segments[i]
            ELSE segments[i] \o <<".">>],
         <<"\n">>)

\* The comma-separated segments of a text, each trimmed.
TrimmedSegments(text) ==
    [i \in 1..Len(Split(text, ",")) |-> Strip(Split(text, ",")[i])]

\* format_address was applied with the style letter to a non-blank input.
LetterAddress ==
    /\ view.op = "format_address"
    /\ view.template_type = <<"l","e","t","t","e","r">>
    /\ Strip(view.address_string) # <<>>

\* C13 as stated: for the style letter and a non-blank input the result is
\* the trimmed comma-separated segments, a comma after each but the last, a
\* period at the end of the last unless present, joined by line breaks.
C13_Original ==
    LetterAddress =>
        view.result = PunctuatedLines(TrimmedSegments(view.address_string))

\* C13 amended: as C13, except that the segments that are empty once
\* trimmed are dropped, and that an input without any other segment comes
\* back trimmed and otherwise unchanged.
C13_Amended ==
    LetterAddress =>
        LET kept == SelectSeq(TrimmedSegments(view.address_string), LAMBDA l : l # <<>>)
        IN  view.result = IF kept = <<>> THEN Strip(view.address_string)
                          ELSE PunctuatedLines(kept)

\* '24 Ave, Osato Junction, Benin City' gives the three lines
\* '24 Ave,', 'Osato Junction,', 'Benin City.'.
C13_Witness ==
    /\ LetterAddress
    /\ Len(view.address_string) > MaxTextLen
    /\ view.result = <<"2","4"," ","A","v","e",",","\n","O","s","a","t","o"," ","J","u","n","c","t","i","o","n",",","\n","B","e","n","i","n"," ","C","i","t","y",".">>

FnNext == FnFormatDate \/ FnFormatAddress \/ FnApplyCasing \/ FnFixOrdinal
            \/ FnDetectType \/ FnExtract \/ FnSmartDefault

SpecFunctions == FnInit /\ [][FnNext]_vars

(***************************************************************************)
(* Further properties of the generation system.                            *)
(***************************************************************************)
\* The generate view answered by sending a file or by reporting that the
\* conversion failed: generate_document returned a document.
Generated == last.response \in {"send_docx", "send_pdf", "flash_to_index"}

\* C12: when a generation request leaves a date field empty, the request is
\* not turned down for it, and the context of the generated document holds
\* for that field the current date in the style of the template.
C12_EmptyDateFilledWithToday ==
    (last.op = "generate" /\ last.template_id \in DOMAIN templates) =>
        LET template == templates[last.template_id] IN
        \A i \in 1..Len(template.placeholders) :
            LET ph == template.placeholders[i] IN
            (ph.placeholder_type = "date"
                /\ IsBlankInput(last.user_inputs, BaseNameOf(ph.name))) =>
                    /\ last.response # "flash_to_create"
                    /\ Generated =>
                          files[uuids].context[ph.name]
                            = format_date(<<>>, template.type, Today)

\* C16: on every generation path the input map handed to generate_document
\* has been through the ordinal normalisation: normalising it again changes
\* nothing, for a single generate request and for the items of a batch.
C16_InputsNormalisedOnEveryPath ==
    /\ last.op = "generate" => FixInputs(last.user_inputs) = last.user_inputs
    /\ BatchRunning /\ proc.attempted # <<>> =>
            FixInputs(proc.user_inputs) = proc.user_inputs

\* C27: the names stored for one document's occurrences are pairwise
\* distinct, and cutting a stored name at the first instance mark gives the
\* token name of the occurrence it was stored for.
C27_StoredNamesLossless ==
    stage \in {"stored", "edited"} =>
        /\ \A i, j \in 1..Len(rows) : i # j => rows[i].name # rows[j].name
        /\ \A i \in 1..Len(rows) :
                BaseNameOf(rows[i].name) = placeholder_instances[i].name

\* C17: in the context of a request that passed validation, the value of
\* every row that is neither of type date nor address-like is the input
\* supplied under the row's base name, in the row's casing.
C17_PlainFieldsKeepInput ==
    view.op = "context" =>
        \A i \in 1..Len(rows) :
            LET ph == rows[i]
                base_name == BaseNameOf(ph.name)
            IN  /\ ph.placeholder_type # "date"
                /\ ~Contains(Lower(ph.name), <<"a","d","d","r","e","s","s">>)
                => /\ base_name \in DOMAIN view.user_inputs
                   /\ view.context[ph.name]
                        = apply_casing(view.user_inputs[base_name], ph.casing)

\* C20: a failure of the post-adjustment of a rendered and saved document
\* (re-opening it, setting margins, re-saving) is swallowed: every file in
\* the generated folder that was left unadjusted is the file of a
\* CreatedDocument row, whose generate_document call therefore succeeded.
C20_AdjustmentFailureSwallowed ==
    \A f \in DOMAIN files :
        ~files[f].adjusted => \E d \in 1..Len(documents) : documents[d].file_path = f

\* C21: a generation request that fails after validation leaves no partial
\* artefact: every file in the generated folder belongs to a CreatedDocument
\* row, so no file is there for a request that failed.
C21_FailedGenerationLeavesNoFile ==
    \A f \in DOMAIN files : \E d \in 1..Len(documents) : documents[d].file_path = f

DownloadableOfBatch == DocumentsOfBatch(last.batch_id) \cap DOMAIN files

\* C23: the archive of a batch download holds, for every document of the
\* batch whose .docx is on disk, the .docx and the .pdf (converted when it
\* was missing, unless that conversion failed), and nothing of a document
\* whose .docx is missing; a missing .docx never fails the download.
C23_ArchiveHoldsDocxAndPdf ==
    last.op \in {"batch_download", "batch_download_pdf"}
        /\ last.response \in {"send_zip", "flash_error"} =>
        /\ last.response = "send_zip" =>
            /\ \A d \in DownloadableOfBatch :
                /\ <<d, "docx">> \in last.archive
                /\ \/ <<d, "pdf">> \in last.archive
                   \/ /\ last.op = "batch_download_pdf"
                      /\ last.conversions[d] # "ok"
                      /\ d \notin DOMAIN pdfs \/ pdfs[d] = "empty"
            /\ \A e \in last.archive : e[1] \in DownloadableOfBatch

\* C29: a request for the pdf of an existing document whose .docx is on
\* disk is answered with the PDF, on the first request (which converts) and
\* on every later one (the .pdf is on disk); it ends in an error only if the
\* conversion failed.
C29_PdfDownloadReturnsPdf ==
    /\ last.op = "download"
    /\ last.format = "pdf"
    /\ last.document_id \in 1..Len(documents)
    /\ last.document_id \in DOMAIN files
    => \/ last.response = "send_pdf"
       \/ last.response = "http_500" /\ last.conversion # "ok"

\* C24: the index listing served after a template was added or deleted
\* shows the types of the templates there are now, and (for the filter the
\* page was built with) the active templates there are now.
C24_IndexShowsCurrentTemplates ==
    last.op = "index" =>
        /\ last.page.types = DistinctTypes
        /\ last.page.type_filter = last.type_filter =>
                last.page.templates = ListedTemplates(last.type_filter)

\* C28: while a template is paused no document is generated from it: every
\* CreatedDocument row and every generated file that a step adds belongs
\* to a template that was active when the step began.
C28_PausedTemplateGeneratesNothing ==
    [][ /\ \A d \in (Len(documents) + 1)..Len(documents') :
                templates[documents'[d].template_id].is_active
        /\ (DOMAIN files' # DOMAIN files /\ last'.op = "generate" /\ proc'.pc = "idle")
                => templates[last'.template_id].is_active ]_vars

\* C30: every batch that has been created eventually leaves 'processing':
\* its stored row ends as 'completed' or 'completed_with_errors', whatever
\* successes, failures and failing commits occurred while it ran.
C30_BatchLeavesProcessing ==
    \A b \in 1..MaxCalls :
        (Len(batches) >= b)
            ~> (Len(batches) >= b
                /\ batches[b].status \in {"completed", "completed_with_errors"})

\* An upload request saved the file and then failed to read it or to
\* extract its tokens.
UploadFailedStep ==
    /\ Len(uploads') = Len(uploads) + 1
    /\ last'.op = "upload" /\ last'.response = "flash_error"
    /\ last'.error \in {"unreadable", "extraction"}

\* C19: an upload whose document cannot be read or extracted persists no
\* Template row and no Placeholder row, and leaves the existing templates
\* as they were.
C19_FailedUploadPersistsNothing ==
    [][ UploadFailedStep => templates' = templates ]_vars

(***************************************************************************)
(* Properties of the transforms.                                           *)
(***************************************************************************)
\* C14: apply_casing is idempotent for every mode and every value, and a
\* mode that is none of upper, lower and title returns the value unchanged.
C14_CasingIdempotent ==
    view.op = "apply_casing" =>
        /\ apply_casing(view.result, view.casing) = view.result
        /\ view.casing \notin {"upper", "lower", "title"} => view.result = view.value

\* An ordinal suffix with an uppercase letter stands at i, i + 1 of the
\* text, after a digit and at the end of a word.
UppercaseSuffixAt(text, i) ==
    /\ i >= 2 /\ i + 1 <= Len(text)
    /\ IsDigit(text[i - 1])
    /\ <<LowerChar(text[i]), LowerChar(text[i + 1])>>
            \in {<<"t","h">>, <<"s","t">>, <<"n","d">>, <<"r","d">>}
    /\ IsUpperChar(text[i]) \/ IsUpperChar(text[i + 1])
    /\ (i + 2 > Len(text) \/ ~IsWordChar(text[i + 2]))

\* C15: fix_date_ordinal_casing returns an uppercase text unchanged; of any
\* other text the result holds no ordinal suffix with an uppercase letter
\* after a digit, and differs from the text in the letters of such suffixes
\* only.
C15_OrdinalSuffixesLowered ==
    view.op = "fix_date_ordinal_casing" =>
        IF IsUpperText(view.text)
        THEN view.result = view.text
        ELSE /\ Len(view.result) = Len(view.text)
             /\ \A i \in 1..Len(view.result) : ~UppercaseSuffixAt(view.result, i)
             /\ \A i \in 1..Len(view.text) :
                    view.result[i] # view.text[i] =>
                        UppercaseSuffixAt(view.text, i) \/ UppercaseSuffixAt(view.text, i - 1)

\* The text holds the word, whatever the case of the text's letters.
HoldsIgnoringCase(text, word) ==
    \E k \in 0..(Len(text) - Len(word)) :
        \A j \in 1..Len(word) : LowerChar(text[k + j]) = word[j]

\* The rules in their order: the type and the words that select it.
TypeRules ==
    << [type |-> "date",   words |-> {<<"d","a","t","e">>}],
       [type |-> "email",  words |-> {<<"e","m","a","i","l">>}],
       [type |-> "number", words |-> {<<"n","u","m","b","e","r">>, <<"a","m","o","u","n","t">>, <<"r","e","g","_","n","o">>}],
       [type |-> "url",    words |-> {<<"u","r","l">>}],
       [type |-> "option", words |-> {<<"g","e","n","d","e","r">>, <<"r","e","l","a","t","i","o","n">>, <<"h","e","_","s","h","e">>,
                                      <<"h","i","s","_","h","e","r">>, <<"r","e","l","a","t","i","o","n","s","h","i","p">>,
                                      <<"r","e","l","i","g","i","o","n">>, <<"l","e","v","e","l">>}] >>

\* The rules that a name matches.
MatchingRules(var_name) ==
    {k \in 1..Len(TypeRules) : \E w \in TypeRules[k].words : HoldsIgnoringCase(var_name, w)}

\* C18: detect_variable_type returns one of text, date, email, number, url,
\* option: the type of the first rule in the order date, email, number, url,
\* option that the name matches in any case, and text when it matches none;
\* so name is text, date is date, email is email and gender is option.
C18_FirstMatchingRuleDecides ==
    view.op = "detect_variable_type" =>
        /\ view.result \in {"text", "date", "email", "number", "url", "option"}
        /\ LET hits == MatchingRules(view.var_name)
           IN  IF hits = {} THEN view.result = "text"
               ELSE \E k \in hits :
                        /\ \A h \in hits : k <= h
                        /\ view.result = TypeRules[k].type
        /\ HoldsIgnoringCase(view.var_name, <<"d","a","t","e">>) => view.result = "date"
        /\ view.var_name = <<"n","a","m","e">> => view.result = "text"
        /\ view.var_name = <<"d","a","t","e">> => view.result = "date"
        /\ view.var_name = <<"e","m","a","i","l">> => view.result = "email"
        /\ view.var_name = <<"g","e","n","d","e","r">> => view.result = "option"

\* C18 witness: a name holding both "email" and "date", the latter in
\* capitals and after the former, was typed date.
C18_Witness ==
    /\ view.op = "detect_variable_type"
    /\ view.var_name = <<"e","m","a","i","l","D","a","t","e">>
    /\ view.result = "date"

\* The text of a paragraph: its runs' texts one after the other.
FullText(runs) == Concat([r \in 1..Len(runs) |-> runs[r].text])

\* The text from position p to position e is a token: two opening braces,
\* blanks, a name of word characters, blanks, two closing braces.
IsToken(text, p, e) ==
    LET word == {j \in (p + 2)..(e - 2) : IsWordChar(text[j])}
    IN  /\ word # {}
        /\ \A j \in (p + 2)..(e - 2) : j \in word \/ IsSpace(text[j])
        /\ \A i, j \in word : \A m \in i..j : m \in word

\* The tokens of a text, each as its first and last position (from 1).
TokenSpans(text) ==
    LET opening == {p \in 1..(Len(text) - 1) : text[p] = "{" /\ text[p + 1] = "{"}
        closing == {e \in 2..Len(text) : text[e - 1] = "}" /\ text[e] = "}"}
    IN  UNION { { <<p, e>> : e \in {c \in closing : IsToken(text, p, c)} } : p \in opening }

\* The name within a token's span.
TokenName(text, sp) ==
    SelectSeq(SubSeq(text, sp[1], sp[2]), LAMBDA c : IsWordChar(c))

\* The run that holds position p of the paragraph's text, counted from 0.
RunHolding(runs, p) ==
    CHOOSE r \in 0..(Len(runs) - 1) :
        LET before == Len(FullText(SubSeq(runs, 1, r)))
        IN  before < p /\ p <= before + Len(runs[r + 1].text)

\* C25: extract_template_variables records one occurrence per token of each
\* paragraph's text (its runs' texts joined), paragraph by paragraph and
\* from left to right, repeats and tokens that straddle runs included, each
\* with the index of the run that holds the token's first character.
C25_OneOccurrencePerMatch ==
    view.op = "extract_template_variables" =>
        \A k \in 1..Len(view.paragraphs) :
            LET runs  == view.paragraphs[k]
                text  == FullText(runs)
                spans == TokenSpans(text)
                mine  == SelectSeq(view.result, LAMBDA inst : inst.paragraph_index = k - 1)
            IN  /\ Len(mine) = Cardinality(spans)
                /\ \A sp \in spans :
                     LET nth == Cardinality({o \in spans : o[1] <= sp[1]})
                     IN  /\ mine[nth].name = TokenName(text, sp)
                         /\ mine[nth].run_index = RunHolding(runs, sp[1])
        /\ \A i, j \in 1..Len(view.result) :
                i < j => view.result[i].paragraph_index <= view.result[j].paragraph_index

\* C25 witness: a paragraph whose text holds the same name twice, the
\* second token beginning in one run and ending in a later one.
C25_Witness ==
    /\ view.op = "extract_template_variables"
    /\ Len(view.paragraphs) = 2
    /\ Len(view.result) = 3
    /\ view.result[2].name = view.result[3].name
    /\ view.result[2].paragraph_index = 1 /\ view.result[3].paragraph_index = 1
    /\ view.result[3].run_index = 1
    /\ Len(view.paragraphs[2]) = 3
    /\ view.paragraphs[2][2].text = <<"{","{">>

\* The words of the vocabulary rules of get_smart_placeholder_default.
DefaultVocabulary ==
    {
      <<"n","a","m","e">>, <<"f","u","l","l","_","n","a","m","e">>,
      <<"s","t","u","d","e","n","t","_","n","a","m","e">>,
      <<"a","p","p","l","i","c","a","n","t","_","n","a","m","e">>,
      <<"n","a","m","e","_","1">>, <<"a","d","d","r","e","s","s">>,
      <<"s","e","n","d","e","r","_","a","d","d","r","e","s","s">>,
      <<"m","y","_","a","d","d","r","e","s","s">>,
      <<"l","o","c","a","t","i","o","n">>,
      <<"r","e","s","i","d","e","n","c","e">>, <<"s","t","r","e","e","t">>,
      <<"c","i","t","y">>, <<"t","o","w","n">>, <<"s","t","a","t","e">>,
      <<"d","e","p","a","r","t","m","e","n","t">>, <<"d","e","p","t">>,
      <<"f","a","c","u","l","t","y">>, <<"c","o","l","l","e","g","e">>,
      <<"i","n","s","t","i","t","u","t","i","o","n">>,
      <<"u","n","i","v","e","r","s","i","t","y">>,
      <<"s","c","h","o","o","l">>, <<"m","a","t","_","n","o">>,
      <<"m","a","t","r","i","c","_","n","o">>, <<"r","e","g","_","n","o">>,
      <<"i","d">>, <<"s","t","u","d","e","n","t","_","i","d">>,
      <<"r","e","g","i","s","t","r","a","t","i","o","n","_","n","u","m","b","e","r">>,
      <<"g","e","n","d","e","r">>, <<"h","i","s","_","h","e","r">>,
      <<"h","i","s","_","s","h","e">>, <<"h","i","m","_","h","e","r">>,
      <<"h","i","m","_","s","h","e">>, <<"h","e","_","s","h","e">>,
      <<"h","e","s","h","e">>, <<"d","a","t","e">>, <<"t","i","m","e">> }

\* C26: get_smart_placeholder_default returns the empty string for every
\* name that detect_variable_type types as date, and "Enter " followed by
\* the name, underscores as blanks and title-cased, for every name that
\* holds no word of the vocabulary.
C26_DateNamesHaveNoDefault ==
    view.op = "get_smart_placeholder_default" =>
        /\ detect_variable_type(view.var_name) = "date" => view.result = <<>>
        /\ (\A w \in DefaultVocabulary : ~HoldsIgnoringCase(view.var_name, w)) =>
                view.result = <<"E","n","t","e","r"," ">>
                                \o Title(ReplaceChar(view.var_name, "_", " "))

====
